---------------------------- MODULE Spec2Model ----------------------------
(***************************************************************************)
(* A model of the MPC protocol core of the IPA helpers.                    *)
(*                                                                         *)
(*   Part I   the send buffer (helpers/buffers/send.rs): one               *)
(*            FixedSizeByteVec per channel, push by record id.             *)
(*            Specification Spec.                                          *)
(*   Part II  semi-honest reshare (protocol/basics/reshare.rs): three      *)
(*            helpers, two messages in flight.  Specification ReshareSpec. *)
(*   Part III malicious reshare (protocol/basics/reshare.rs): reshare of   *)
(*            x and of r*x, then MAC validation.  Specification            *)
(*            MaliciousSpec.                                               *)
(*   Part IV  the sort driver (protocol/sort/generate_permutation_opt.rs,  *)
(*            protocol/sort/apply_sort/mod.rs) on reconstructed values.    *)
(*            Specifications SortSpec and SortDriverSpec.                  *)
(*   Part V   the attribution pipelines on reconstructed values: ipa       *)
(*            (protocol/ipa/mod.rs), specification IpaSpec, and            *)
(*            OprfIpaQuery::execute (query/runner/oprf_ipa.rs),            *)
(*            specification OprfSpec, and ipa_wip_malicious                *)
(*            (protocol/ipa/mod.rs), specification WipSpec.                *)
(*   Part VI  reshare of a slice (protocol/basics/reshare.rs).             *)
(*            Specifications VecSpec and VecElemSpec.                      *)
(*   Part VII reshare of an input row (protocol/ipa/mod.rs).               *)
(*            Specification RowSpec.                                       *)
(***************************************************************************)
EXTENDS Integers, Sequences, FiniteSets, TLC

VARIABLES
    \* ---- Part I: SendBuffer ------------------------------------------
    items_in_batch,   \* SendBuffer.items_in_batch
    batch_count,      \* SendBuffer.batch_count
    inner,            \* SendBuffer.inner : ChannelId -> ByteBuf (or Absent)
    last,             \* the last call of push: its arguments, what the
                      \* channel looked like when it was made, and its result
    sent,             \* per channel, the batches push has returned so far
    accepted,         \* per (channel, record id), the payloads push returned Ok for
    \* ---- Part II: reshare --------------------------------------------
    to_helper,        \* the role the value is reshared to
    secret,           \* the shared secret (known to nobody)
    input,            \* per helper, its replicated share (left, right)
    prss,             \* per helper, generate_fields(record_id) = (r.0, r.1)
    pc,               \* per helper, where it is in reshare
    part,             \* per helper, the part1/part2 value it computed
    rcvd,             \* per helper, the value it received
    net,              \* messages in flight: (from, to) -> sequence of values
    output,           \* per helper, the share reshare returned
    msgs,             \* number of messages sent so far
    \* ---- Part III: malicious reshare ---------------------------------
    malicious_actor,  \* the helper that runs the additive attack, or none
    r_key,            \* the validator's MAC key r (known to nobody)
    random_constant,  \* the coefficient accumulate_macs draws for the record
    m_input,          \* per lane (x, rx) and helper, its replicated share
    m_prss,           \* per lane and helper, generate_fields(record_id)
    m_pc,             \* per helper, where it is in the malicious reshare
    m_part,           \* per lane and helper, the part it computed
    m_net,            \* per lane, messages in flight: (from, to) -> values
    m_lane,           \* per lane and helper, what the lane's reshare returned
    m_output,         \* per helper, the MaliciousReplicated it returned
    absorbed,         \* the helpers whose accumulate_macs has run
    validated,        \* the result of MaliciousValidator::validate
    \* ---- Part IV: sort -----------------------------------------------
    sort_keys,        \* sort_keys[bit][row]: the bits of the match keys
    num_bits,         \* number of bits of a key
    num_multi_bits,   \* number of bits sorted per block
    bit_num,          \* the loop variable of generate_permutation_opt
    composed,         \* composed_less_significant_bits_permutation
    sort_pc,          \* where the sort driver is
    sort_permutation, \* RevealedAndRandomPermutations handed to apply_sort
    sorted_rows,      \* what apply_sort_permutation returned
    sort_calls,       \* the sub-protocols generate_permutation_opt has
                      \* started: a sequence of sets of calls, the calls of
                      \* a set joined by one await
    \* ---- Part V: attribution -----------------------------------------
    input_rows,       \* the reports of the query, in input order
    per_user_credit_cap, \* the configured cap
    max_breakdown_key,   \* number of breakdown keys of the output
    ipa_pc,           \* where the pipeline is
    ipa_permutation,  \* sort_permutation of ipa
    ipa_sorted,       \* sorted_rows of ipa
    helper_bits,      \* helper_bits of ipa
    credits,          \* accumulated_credits, then user_capped_credits
    ss_bits,          \* the saturating-sum width execute selected
    ipa_result,       \* what the pipeline returned
    \* ---- Part V: the input stream of execute --------------------------
    plaintext_match_keys, \* config.plaintext_match_keys
    query_size,       \* the query_size argument of execute
    reports,          \* the reports of input_stream, in order
    \* ---- Part V: ipa_wip_malicious ------------------------------------
    tampered,         \* a helper has spoiled a share under the validator in use
    validations,      \* the results of the validate calls so far
    sh_steps,         \* the steps run in the semi-honest context so far
    \* ---- Part VI: reshare of a slice ----------------------------------
    vec_len,          \* the length of the slice
    vec_pc,           \* where reshare_borrowed is
    vec_done,         \* number of element reshares that returned Ok
    vec_result,       \* what reshare_borrowed returned
    vec_binding,      \* the record binding: Some(record id) or None (NoRecord)
    vec_input,        \* the elements of the slice
    vec_keys,         \* per element, the context and record id of its reshare
    vec_out,          \* per element, what its reshare returned so far
    \* ---- Part VII: reshare of an input row -----------------------------
    row_input,        \* the IPAModulusConvertedInputRow that is reshared
    row_record_id,    \* the record id of the call
    row_fields,       \* per field, what its reshare returned so far
    row_pc,           \* where the row's reshare is
    row_result        \* what the row's reshare returned

sendVars == <<items_in_batch, batch_count, inner, last, sent, accepted>>
reshareVars == <<to_helper, secret, input, prss, pc, part, rcvd, net, output, msgs>>
maliciousVars == <<malicious_actor, r_key, random_constant, m_input, m_prss,
                   m_pc, m_part, m_net, m_lane, m_output, absorbed, validated>>
sortVars == <<sort_keys, num_bits, num_multi_bits, bit_num, composed,
              sort_pc, sort_permutation, sorted_rows, sort_calls>>
ipaVars == <<input_rows, per_user_credit_cap, max_breakdown_key, ipa_pc,
             ipa_permutation, ipa_sorted, helper_bits, credits, ss_bits,
             ipa_result>>
streamVars == <<plaintext_match_keys, query_size, reports>>
wipVars == <<tampered, validations, sh_steps>>
vecElemVars == <<vec_binding, vec_input, vec_keys, vec_out>>
vecVars == <<vec_len, vec_pc, vec_done, vec_result, vecElemVars>>
rowVars == <<row_input, row_record_id, row_fields, row_pc, row_result>>
otherVars == <<maliciousVars, sortVars, ipaVars, streamVars, wipVars, vecVars,
               rowVars>>
notMaliciousVars == <<sendVars, reshareVars, sortVars, ipaVars, streamVars,
                      wipVars, vecVars, rowVars>>
notSortVars == <<sendVars, reshareVars, maliciousVars, ipaVars, streamVars,
                 wipVars, vecVars, rowVars>>
notIpaVars == <<sendVars, reshareVars, maliciousVars, sortVars, streamVars,
                wipVars, vecVars, rowVars>>
notWipVars == <<sendVars, reshareVars, maliciousVars, sortVars, streamVars,
                vecVars, rowVars>>
notVecVars == <<sendVars, reshareVars, maliciousVars, sortVars, ipaVars,
                streamVars, wipVars, rowVars>>
notRowVars == <<sendVars, reshareVars, maliciousVars, sortVars, ipaVars,
                streamVars, wipVars, vecVars>>
vars == <<sendVars, reshareVars, otherVars>>

(***************************************************************************)
(*                         Part I: the send buffer                         *)
(***************************************************************************)

\* Bytes allocated per element (MESSAGE_PAYLOAD_SIZE_BYTES).
ELEMENT_SIZE_BYTES == 8

\* Bounds of the model.
MaxItemsInBatch == 2
MaxBatchCount == 2
MaxRecordId == 3

\* ChannelId = (role, step): two channels that differ in the role.
Channels == {"H1", "H2"}
RecordIds == 0..MaxRecordId

\* Message payloads: the empty payload of the tests' empty_msg, one-byte
\* payloads (array_vec!(.. => i)), at most ELEMENT_SIZE_BYTES long.
Payloads == {<<>>, <<0>>, <<1>>}

\* Option<T>: None is the empty sequence, Some(x) the sequence <<x>>.
None == <<>>
Some(x) == <<x>>
NoChannel == "none"

ZeroElement == [i \in 1..ELEMENT_SIZE_BYTES |-> 0]

\* The concatenation of a sequence of elements: the bytes of a Vec<u8>.
Flatten(elems) ==
    [k \in 1..(Len(elems) * ELEMENT_SIZE_BYTES) |->
        elems[((k - 1) \div ELEMENT_SIZE_BYTES) + 1]
             [((k - 1) % ELEMENT_SIZE_BYTES) + 1]]

\* ---- FixedSizeByteVec (helpers/buffers/fsv.rs) ------------------------

\* FixedSizeByteVec::new(region_count, region_size)
FsvNew(region_count, region_size) ==
    [ data |-> [i \in 1..(region_count * region_size) |-> ZeroElement],
      added |-> [i \in 1..(region_count * region_size) |-> FALSE],
      region_size |-> region_size,
      elements_drained |-> 0 ]

FsvCapacity(buf) == Len(buf.data)

FsvElementsDrained(buf) == buf.elements_drained

\* insert(index, elem): the element stored at index before, None for an
\* empty slot.  An occupied slot keeps its element.
FsvInsert(buf, index, elem) ==
    IF buf.added[index + 1]
    THEN [ buf |-> buf, prev |-> Some(buf.data[index + 1]) ]
    ELSE [ buf |-> [buf EXCEPT !.data[index + 1] = elem,
                               !.added[index + 1] = TRUE],
           prev |-> None ]

\* take(): when every slot of the first region is filled, the region is
\* drained, the rest moves to the head and elements_drained advances.
FsvTake(buf) ==
    LET n == buf.region_size
        cap == Len(buf.data)
    IN  IF \A i \in 1..n : buf.added[i]
        THEN [ buf |-> [ data |-> [i \in 1..cap |->
                                     IF i + n <= cap THEN buf.data[i + n]
                                                     ELSE ZeroElement],
                         added |-> [i \in 1..cap |->
                                     IF i + n <= cap THEN buf.added[i + n]
                                                     ELSE FALSE],
                         region_size |-> n,
                         elements_drained |-> buf.elements_drained + n ],
               out |-> Some(Flatten(SubSeq(buf.data, 1, n))) ]
        ELSE [ buf |-> buf, out |-> None ]

\* ---- SendBuffer -------------------------------------------------------

\* The range of record ids push accepts: start..end, end excluded.
AcceptedStart(buf) == FsvElementsDrained(buf)
AcceptedEnd(buf) == FsvElementsDrained(buf) + FsvCapacity(buf)

InAcceptedRangeShort(buf, record_id) ==
    AcceptedStart(buf) <= record_id /\ record_id < AcceptedEnd(buf) - 1
\* (start..end).contains(&msg.record_id)
InAcceptedRange(buf, record_id) ==
    AcceptedStart(buf) <= record_id /\ record_id < AcceptedEnd(buf)

PushIndexMirrored(buf, record_id) ==
    FsvCapacity(buf) - 1 - (record_id - AcceptedStart(buf))
\* index = u32::from(msg.record_id) - u32::from(start)
PushIndex(buf, record_id) == record_id - AcceptedStart(buf)

PadShifted(payload) ==
    [i \in 1..ELEMENT_SIZE_BYTES |->
        IF i > 1 /\ i <= Len(payload) + 1 THEN payload[i - 1] ELSE 0]
\* payload = [0; ELEMENT_SIZE_BYTES]; payload[..len].copy_from_slice(..):
\* the payload extended with zero bytes to the element size.
Pad(payload) ==
    [i \in 1..ELEMENT_SIZE_BYTES |->
        IF i <= Len(payload) THEN payload[i] ELSE 0]

IsDuplicateIfDifferent(prev, elem) == prev # None /\ Head(prev) # elem
IsDuplicateIfSame(prev, elem) == prev # None /\ Head(prev) = elem
IsDuplicateNever(prev, elem) == FALSE
\* if let Some(v) = buf.insert(index, payload)
IsDuplicate(prev, elem) == prev # None

TakeNever(buf) == [ buf |-> buf, out |-> None ]
\* Ok(buf.take())
TakeBatch(buf) == FsvTake(buf)

BufOfShared(c) ==
    IF DOMAIN inner # {} THEN inner[CHOOSE x \in DOMAIN inner : TRUE]
    ELSE FsvNew(batch_count, items_in_batch)
\* self.inner.get_mut(channel_id), or the buffer or_insert_with creates.
BufOf(c) ==
    IF c \in DOMAIN inner THEN inner[c] ELSE FsvNew(batch_count, items_in_batch)

\* A plausible slip: the payload of a duplicate replaces the stored one.
PushOnOverwriting(buf, record_id, payload) ==
    IF ~InAcceptedRange(buf, record_id)
    THEN [ buf |-> buf, result |-> "OutOfRange", batch |-> None ]
    ELSE LET elem == Pad(payload)
             ins == FsvInsert(buf, PushIndex(buf, record_id), elem)
         IN  IF IsDuplicate(ins.prev, elem)
             THEN [ buf |-> [ins.buf EXCEPT
                               !.data[PushIndex(buf, record_id) + 1] = elem],
                    result |-> "Duplicate", batch |-> None ]
             ELSE LET t == TakeBatch(ins.buf)
                  IN  [ buf |-> t.buf, result |-> "Ok", batch |-> t.out ]

\* What push does on the channel's buffer buf: the buffer afterwards and
\* the value returned.
PushOn(buf, record_id, payload) ==
    IF ~InAcceptedRange(buf, record_id)
    THEN [ buf |-> buf, result |-> "OutOfRange", batch |-> None ]
    ELSE LET elem == Pad(payload)
             ins == FsvInsert(buf, PushIndex(buf, record_id), elem)
         IN  IF IsDuplicate(ins.prev, elem)
             THEN [ buf |-> ins.buf, result |-> "Duplicate", batch |-> None ]
             ELSE LET t == TakeBatch(ins.buf)
                  IN  [ buf |-> t.buf, result |-> "Ok", batch |-> t.out ]

\* push(channel_id, msg)
PushResult(c, record_id, payload) == PushOn(BufOf(c), record_id, payload)

\* One call of push.  last, sent and accepted record what the caller saw:
\* base and occupied are taken from the channel before the call.
Push(c, record_id, payload) ==
    LET r == PushResult(c, record_id, payload)
        base == IF c \in DOMAIN inner THEN inner[c].elements_drained ELSE 0
        idx == record_id - base + 1
        held == /\ c \in DOMAIN inner
                /\ idx \in DOMAIN inner[c].added
                /\ inner[c].added[idx]
    IN  /\ inner' = [x \in DOMAIN inner \cup {c} |->
                        IF x = c THEN r.buf ELSE inner[x]]
        /\ last' = [ ch |-> c, record_id |-> record_id, payload |-> payload,
                     result |-> r.result, batch |-> r.batch,
                     base |-> base,
                     occupied |-> held,
                     stored |-> IF held THEN Some(inner[c].data[idx]) ELSE None,
                     before |-> inner ]
        /\ sent' = IF r.result = "Ok" /\ r.batch # None
                   THEN [sent EXCEPT ![c] = Append(@, Head(r.batch))]
                   ELSE sent
        /\ accepted' = IF r.result = "Ok"
                       THEN [accepted EXCEPT ![c][record_id] = Append(@, payload)]
                       ELSE accepted
        /\ UNCHANGED <<items_in_batch, batch_count>>
        /\ UNCHANGED reshareVars
    /\ UNCHANGED otherVars

NoCall == [ ch |-> NoChannel, record_id |-> 0, payload |-> <<>>,
            result |-> "NoCall", batch |-> None, base |-> 0,
            occupied |-> FALSE, stored |-> None, before |-> <<>> ]

\* SendBuffer::new(config)
SendInit ==
    /\ items_in_batch \in 1..MaxItemsInBatch
    /\ batch_count \in 1..MaxBatchCount
    /\ inner = <<>>
    /\ last = NoCall
    /\ sent = [c \in Channels |-> <<>>]
    /\ accepted = [c \in Channels |-> [r \in RecordIds |-> <<>>]]

\* Part II is not running.
ReshareIdle ==
    /\ to_helper = NoChannel
    /\ secret = 0
    /\ input = <<>>
    /\ prss = <<>>
    /\ pc = <<>>
    /\ part = <<>>
    /\ rcvd = <<>>
    /\ net = <<>>
    /\ output = <<>>
    /\ msgs = 0

\* Part III is not running.
MaliciousIdle ==
    /\ malicious_actor = NoChannel
    /\ r_key = 0
    /\ random_constant = 0
    /\ m_input = <<>>
    /\ m_prss = <<>>
    /\ m_pc = <<>>
    /\ m_part = <<>>
    /\ m_net = <<>>
    /\ m_lane = <<>>
    /\ m_output = <<>>
    /\ absorbed = {}
    /\ validated = None

\* Part IV is not running.
SortIdle ==
    /\ sort_keys = <<>>
    /\ num_bits = 0
    /\ num_multi_bits = 0
    /\ bit_num = 0
    /\ composed = <<>>
    /\ sort_pc = "idle"
    /\ sort_permutation = None
    /\ sorted_rows = None
    /\ sort_calls = <<>>

\* Part V is not running.
IpaIdle ==
    /\ input_rows = <<>>
    /\ per_user_credit_cap = 0
    /\ max_breakdown_key = 0
    /\ ipa_pc = "idle"
    /\ ipa_permutation = None
    /\ ipa_sorted = <<>>
    /\ helper_bits = <<>>
    /\ credits = <<>>
    /\ ss_bits = 0
    /\ ipa_result = None

\* execute has no input stream.
StreamIdle ==
    /\ plaintext_match_keys = FALSE
    /\ query_size = 0
    /\ reports = <<>>

\* ipa_wip_malicious is not running.
WipIdle ==
    /\ tampered = FALSE
    /\ validations = <<>>
    /\ sh_steps = <<>>

\* Part VI is not running.
VecIdle ==
    /\ vec_len = 0
    /\ vec_pc = "idle"
    /\ vec_done = 0
    /\ vec_result = None
    /\ vec_binding = None
    /\ vec_input = <<>>
    /\ vec_keys = <<>>
    /\ vec_out = <<>>

\* Part VII is not running.
RowIdle ==
    /\ row_input = <<>>
    /\ row_record_id = 0
    /\ row_fields = <<>>
    /\ row_pc = "idle"
    /\ row_result = None

OthersIdle ==
    /\ MaliciousIdle
    /\ SortIdle
    /\ IpaIdle
    /\ StreamIdle
    /\ WipIdle
    /\ VecIdle
    /\ RowIdle

Init == SendInit /\ ReshareIdle /\ OthersIdle

\* One channel, every payload.
Next == \E record_id \in RecordIds, payload \in Payloads :
            Push("H1", record_id, payload)

Spec == Init /\ [][Next]_vars

\* Two channels, the payloads of the tests' empty_msg.
ChannelNext == \E c \in Channels, record_id \in RecordIds :
                   Push(c, record_id, <<>>)

ChannelSpec == Init /\ [][ChannelNext]_vars


(***************************************************************************)
(*                   Properties of the send buffer                         *)
(***************************************************************************)

Called == last.result # "NoCall"
Capacity == batch_count * items_in_batch
\* Batches and elements the channel of the last call had emitted before it.
BatchesBefore == Len(sent[last.ch]) - (IF last.batch # None THEN 1 ELSE 0)
DrainedBefore == items_in_batch * BatchesBefore
InWindow == DrainedBefore <= last.record_id
            /\ last.record_id < DrainedBefore + Capacity
\* The payloads accepted for (c, r) before the last call.
AcceptedBefore(c, r) ==
    IF last.result = "Ok" /\ last.ch = c /\ last.record_id = r
    THEN SubSeq(accepted[c][r], 1, Len(accepted[c][r]) - 1)
    ELSE accepted[c][r]
\* The buffer the channel of the last call had (or was given) before it.
BufBefore ==
    IF last.ch \in DOMAIN last.before THEN last.before[last.ch]
    ELSE FsvNew(batch_count, items_in_batch)
\* Element j (from 0) of a batch of bytes.
ElementAt(batch, j) ==
    SubSeq(batch, j * ELEMENT_SIZE_BYTES + 1, (j + 1) * ELEMENT_SIZE_BYTES)

\* C1: push returns OutOfRange exactly when the record id lies outside
\* [base, base + capacity), base being the number of elements the channel
\* has drained and capacity = batch_count * items_in_batch; a record id in
\* the window whose slot is empty is accepted, whatever lower record ids
\* are still missing.
C1_OutOfRangeExactlyOutsideWindow ==
    Called =>
        /\ last.base = DrainedBefore
        /\ (last.result = "OutOfRange") <=> ~InWindow
        /\ (InWindow /\ AcceptedBefore(last.ch, last.record_id) = <<>>)
              => last.result = "Ok"

\* A record id above the head of the window is accepted while the head is
\* still empty, on a channel that has already flushed a batch.
C1_Witness ==
    /\ last.result = "Ok"
    /\ last.base > 0
    /\ last.record_id > last.base
    /\ accepted[last.ch][last.base] = <<>>

\* C2: a second push of a record id whose slot is still buffered, with a
\* payload different from the first one, returns Duplicate.
C2_DifferentPayloadIsDuplicate ==
    (/\ Called
     /\ InWindow
     /\ AcceptedBefore(last.ch, last.record_id) # <<>>
     /\ AcceptedBefore(last.ch, last.record_id)[1] # last.payload)
        => last.result = "Duplicate"

C2_Witness ==
    /\ last.result = "Duplicate"
    /\ last.occupied
    /\ accepted[last.ch][last.record_id] = << <<1>> >>
    /\ last.payload = <<>>

\* C3 as stated: a second push with the identical payload succeeds.
C3_IdenticalPayloadIsAccepted ==
    (/\ Called
     /\ InWindow
     /\ AcceptedBefore(last.ch, last.record_id) # <<>>
     /\ AcceptedBefore(last.ch, last.record_id)[1] = last.payload)
        => last.result = "Ok"

\* C3 amended: a second push of a record id whose slot is still buffered,
\* with a payload identical to the first one, is rejected with Duplicate,
\* returns no batch and leaves the buffer as the first push left it.
C3_IdenticalPayloadLeavesBuffer ==
    (/\ Called
     /\ InWindow
     /\ AcceptedBefore(last.ch, last.record_id) # <<>>
     /\ AcceptedBefore(last.ch, last.record_id)[1] = last.payload)
        => /\ last.result # "Ok"
           /\ last.batch = None
           /\ inner = last.before
           /\ inner[last.ch].data[last.record_id - last.base + 1]
                 = Pad(last.payload)

C3_Witness ==
    /\ last.result = "Duplicate"
    /\ last.payload = <<1>>
    /\ accepted[last.ch][last.record_id] = << <<1>> >>
    /\ inner = last.before

\* C4: when a record id was pushed and its batch is not flushed (the first
\* push returned Ok(None)), pushing the same record id with the same
\* payload again returns Duplicate.
C4_SamePayloadIsDuplicate ==
    (/\ Called
     /\ last.occupied
     /\ last.stored = Some(Pad(last.payload))
     /\ accepted[last.ch][last.record_id] # <<>>
     /\ Head(accepted[last.ch][last.record_id]) = last.payload)
        => last.result = "Duplicate"

\* The case of the test rejects_duplicates: the empty message, twice.
C4_Witness ==
    /\ last.result = "Duplicate"
    /\ last.occupied
    /\ last.payload = <<>>
    /\ accepted[last.ch][last.record_id] = << <<>> >>
    /\ sent[last.ch] = <<>>

\* C5: each (channel, record id) is accepted at most once, so it is in at
\* most one emitted batch: pushing it again returns Duplicate while its
\* slot is buffered and OutOfRange once base has moved past it.
C5_AcceptedAtMostOnce ==
    /\ \A c \in Channels, r \in RecordIds : Len(accepted[c][r]) <= 1
    /\ \A c \in DOMAIN inner :
          Cardinality({r \in RecordIds : accepted[c][r] # <<>>})
            = items_in_batch * Len(sent[c])
              + Cardinality({i \in DOMAIN inner[c].added : inner[c].added[i]})
    /\ (Called /\ AcceptedBefore(last.ch, last.record_id) # <<>>) =>
          last.result = (IF last.record_id >= DrainedBefore
                         THEN "Duplicate" ELSE "OutOfRange")

\* A record id is pushed again after its batch was flushed.
C5_Witness ==
    /\ last.result = "OutOfRange"
    /\ accepted[last.ch][last.record_id] # <<>>
    /\ last.record_id < last.base

\* C6: the k-th batch a channel emits holds the record ids
\* [k * items_in_batch, (k + 1) * items_in_batch) in ascending order,
\* whatever the order of the pushes.
C6_BatchesInRecordOrder ==
    \A c \in Channels : \A k \in 1..Len(sent[c]) :
        /\ Len(sent[c][k]) = items_in_batch * ELEMENT_SIZE_BYTES
        /\ \A j \in 0..(items_in_batch - 1) :
              LET r == (k - 1) * items_in_batch + j
              IN  /\ Len(accepted[c][r]) = 1
                  /\ ElementAt(sent[c][k], j) = Pad(accepted[c][r][1])

\* Two batches of two records, the second record of a batch pushed before
\* the first one, with different payloads.
C6_Witness ==
    /\ items_in_batch = 2
    /\ Len(sent["H1"]) = 2
    /\ last.batch # None
    /\ last.record_id = 2
    /\ accepted["H1"][2] = << <<1>> >>
    /\ accepted["H1"][3] = << <<>> >>

\* C7: push returns Ok(Some(batch)) exactly when, after the insert, all
\* items_in_batch slots at the head are filled; base then advances by
\* items_in_batch, so a record id of the next range, rejected before, is
\* accepted afterwards.  Every other accepted push returns Ok(None).
C7_FlushExactlyWhenHeadFull ==
    /\ (Called /\ last.result # "Ok") => last.batch = None
    /\ (Called /\ last.result = "Ok") =>
          /\ (last.batch # None) <=>
                \A r \in DrainedBefore..(DrainedBefore + items_in_batch - 1) :
                    r \in RecordIds /\ accepted[last.ch][r] # <<>>
          /\ last.batch # None =>
                /\ inner[last.ch].elements_drained
                      = last.base + items_in_batch
                /\ \A r \in RecordIds :
                      (r >= last.base + Capacity
                       /\ r < last.base + Capacity + items_in_batch)
                         => /\ PushOn(BufBefore, r, <<>>).result = "OutOfRange"
                            /\ PushResult(last.ch, r, <<>>).result = "Ok"
          /\ last.batch = None =>
                inner[last.ch].elements_drained = last.base

\* The head slot is filled last, and a record id of the next range exists.
C7_Witness ==
    /\ last.result = "Ok"
    /\ last.batch # None
    /\ items_in_batch = 2
    /\ last.record_id = last.base
    /\ last.base + Capacity \in RecordIds
    /\ PushResult(last.ch, last.base + Capacity, <<>>).result = "Ok"

\* C8: in an emitted batch the element of record id r starts at offset
\* (r - base) * ELEMENT_SIZE_BYTES and is the payload pushed for r,
\* followed by zero bytes up to the element size.
C8_BatchNotCorrupted ==
    (Called /\ last.batch # None) =>
        \A r \in last.base..(last.base + items_in_batch - 1) :
            LET p == accepted[last.ch][r][1]
                off == (r - last.base) * ELEMENT_SIZE_BYTES
            IN  \A i \in 1..ELEMENT_SIZE_BYTES :
                    last.batch[1][off + i] = (IF i <= Len(p) THEN p[i] ELSE 0)

\* A batch with an empty payload in front of a one-byte payload.
C8_Witness ==
    /\ last.batch # None
    /\ items_in_batch = 2
    /\ accepted[last.ch][last.base] = << <<>> >>
    /\ accepted[last.ch][last.base + 1] = << <<1>> >>
    /\ last.batch[1][ELEMENT_SIZE_BYTES + 1] = 1

\* C9: a push on one channel leaves every other channel as it was, each
\* channel's base counts the elements that channel itself has emitted,
\* and a record id one channel accepts after flushing is still out of
\* range on a channel that has not advanced.
C9_WindowIsPerChannel ==
    /\ Called =>
          \A c \in Channels \ {last.ch} :
              /\ (c \in DOMAIN inner) <=> (c \in DOMAIN last.before)
              /\ c \in DOMAIN inner => inner[c] = last.before[c]
    /\ \A c \in DOMAIN inner :
          inner[c].elements_drained = items_in_batch * Len(sent[c])
    /\ \A c \in Channels, r \in RecordIds :
          (sent[c] = <<>> /\ r >= Capacity)
              => PushResult(c, r, <<>>).result = "OutOfRange"

\* The test offset_is_per_channel: H1 has flushed and accepts record id
\* Capacity, which H2 has just rejected.
C9_Witness ==
    /\ last.ch = "H2"
    /\ last.result = "OutOfRange"
    /\ last.record_id = Capacity
    /\ sent["H2"] = <<>>
    /\ Len(sent["H1"]) > 0
    /\ InAcceptedRange(inner["H1"], last.record_id)

Rejected(call) == call.result \in {"OutOfRange", "Duplicate"}

\* After a rejected push: no batch, and the buffer of the channel, its base
\* and stored payloads with it, is the one before the call; a duplicate
\* left the payload accepted first in its slot.
RejectedPushLeftBuffer ==
    (Called /\ Rejected(last)) =>
        /\ last.batch = None
        /\ inner[last.ch] = BufBefore
        /\ inner[last.ch].elements_drained = last.base
        /\ last.result = "Duplicate" =>
              /\ Len(accepted[last.ch][last.record_id]) = 1
              /\ inner[last.ch].data[last.record_id - last.base + 1]
                    = Pad(accepted[last.ch][last.record_id][1])

\* Every element of every batch is a payload push returned Ok for.
BatchesHoldAcceptedPayloads ==
    \A c \in Channels : \A k \in 1..Len(sent[c]) :
        \A j \in 0..(items_in_batch - 1) :
            \E i \in 1..Len(accepted[c][(k - 1) * items_in_batch + j]) :
                ElementAt(sent[c][k], j)
                    = Pad(accepted[c][(k - 1) * items_in_batch + j][i])

\* A rejected push emits nothing and accepts nothing.
RejectedPushEmitsNothing ==
    Rejected(last') => (sent' = sent /\ accepted' = accepted)

HeadBatchComplete(c) ==
    \A i \in 1..items_in_batch : inner[c].added[i]

\* Every record id below k * items_in_batch has been pushed to channel c.
AllPushedBelow(c, k) ==
    \A r \in 0..(k * items_in_batch - 1) :
        r \in RecordIds /\ accepted[c][r] # <<>>

\* C38 as stated: after every push returns, no complete batch is left at
\* the head of the channel's buffer: once all record ids in
\* [0, k * items_in_batch) have been pushed to a channel, in any order the
\* window allows and with any batch_count, all k batches have been emitted.
C38_NoCompleteBatchLeftAtHead ==
    /\ \A c \in DOMAIN inner : ~HeadBatchComplete(c)
    /\ \A c \in Channels : \A k \in 1..(MaxRecordId + 1) :
           AllPushedBelow(c, k) => Len(sent[c]) >= k

(***************************************************************************)
(*                     Part II: semi-honest reshare                        *)
(***************************************************************************)

\* The order of the field F: Fp31, the small prime field of the tests.
PRIME == 31
\* Bound of the model: inputs are drawn from 0..MaxFieldInput and PRIME - 1.
MaxFieldInput == 1

FieldInputs == (0..MaxFieldInput) \cup {PRIME - 1}

FAdd(a, b) == (a + b) % PRIME
FSub(a, b) == (a + PRIME - b) % PRIME

Roles == {"H1", "H2", "H3"}
Left == "Left"
Right == "Right"

\* Role::peer(direction): the ring H1 -> H2 -> H3 -> H1, to the right.
Peer(role, direction) ==
    IF direction = Right
    THEN CASE role = "H1" -> "H2" [] role = "H2" -> "H3" [] OTHER -> "H1"
    ELSE CASE role = "H1" -> "H3" [] role = "H2" -> "H1" [] OTHER -> "H2"

\* Replicated::new(left, right)
Replicated(l, r) == [left |-> l, right |-> r]

\* The shares of v that the three helpers hold: helper i holds (x_i, x_i+1).
SharesOf(x1, x2, x3) ==
    [h \in Roles |->
        CASE h = "H1" -> Replicated(x1, x2)
          [] h = "H2" -> Replicated(x2, x3)
          [] OTHER    -> Replicated(x3, x1)]

\* Reconstruct: the sum of the three left components.
Reconstruct(shares) ==
    FAdd(FAdd(shares["H1"].left, shares["H2"].left), shares["H3"].left)

\* part1 = self.left() + self.right() - r.1
Part1WrongRandom(share, r) == FSub(FAdd(share.left, share.right), r[1])
Part1(share, r) == FSub(FAdd(share.left, share.right), r[2])

\* part2 = self.left() - r.0
Part2(share, r) == FSub(share.left, r[1])

\* Ok(Replicated::new(part1 + part2, r.1))
LeftPeerOutputSwapped(part1, part2, r) == Replicated(r[2], FAdd(part1, part2))
LeftPeerOutput(part1, part2, r) == Replicated(FAdd(part1, part2), r[2])

\* Ok(Replicated::new(r.0, part1 + part2))
RightPeerOutput(part1, part2, r) == Replicated(r[1], FAdd(part1, part2))

\* Ok(Replicated::new(r.0, r.1))
TargetOutputSwapped(r) == Replicated(r[2], r[1])
TargetOutput(r) == Replicated(r[1], r[2])

\* send_channel(to).send(record_id, v)
SendDropped(from, to, v) == net
Send(from, to, v) == [net EXCEPT ![<<from, to>>] = Append(@, v)]

\* to_helper.left computes part1 and sends it to to_helper.right.
SendPart1(h) ==
    /\ pc[h] = "start"
    /\ h = Peer(to_helper, Left)
    /\ part' = [part EXCEPT ![h] = Some(Part1(input[h], prss[h]))]
    /\ net' = Send(h, Peer(to_helper, Right), Part1(input[h], prss[h]))
    /\ msgs' = msgs + 1
    /\ pc' = [pc EXCEPT ![h] = "receive"]
    /\ UNCHANGED <<to_helper, secret, input, prss, rcvd, output>>
    /\ UNCHANGED sendVars
    /\ UNCHANGED otherVars

\* to_helper.right computes part2 and sends it to to_helper.left.
SendPart2(h) ==
    /\ pc[h] = "start"
    /\ h # Peer(to_helper, Left)
    /\ h = Peer(to_helper, Right)
    /\ part' = [part EXCEPT ![h] = Some(Part2(input[h], prss[h]))]
    /\ net' = Send(h, Peer(to_helper, Left), Part2(input[h], prss[h]))
    /\ msgs' = msgs + 1
    /\ pc' = [pc EXCEPT ![h] = "receive"]
    /\ UNCHANGED <<to_helper, secret, input, prss, rcvd, output>>
    /\ UNCHANGED sendVars
    /\ UNCHANGED otherVars

\* to_helper.left wakes up with part2.
ReceivePart2(h) ==
    /\ pc[h] = "receive"
    /\ h = Peer(to_helper, Left)
    /\ net[<<Peer(to_helper, Right), h>>] # <<>>
    /\ LET part2 == Head(net[<<Peer(to_helper, Right), h>>])
       IN  /\ rcvd' = [rcvd EXCEPT ![h] = Some(part2)]
           /\ output' = [output EXCEPT ![h] =
                            Some(LeftPeerOutput(part[h][1], part2, prss[h]))]
    /\ net' = [net EXCEPT ![<<Peer(to_helper, Right), h>>] = Tail(@)]
    /\ pc' = [pc EXCEPT ![h] = "done"]
    /\ UNCHANGED <<to_helper, secret, input, prss, part, msgs>>
    /\ UNCHANGED sendVars
    /\ UNCHANGED otherVars

\* to_helper.right wakes up with part1.
ReceivePart1(h) ==
    /\ pc[h] = "receive"
    /\ h # Peer(to_helper, Left)
    /\ h = Peer(to_helper, Right)
    /\ net[<<Peer(to_helper, Left), h>>] # <<>>
    /\ LET part1 == Head(net[<<Peer(to_helper, Left), h>>])
       IN  /\ rcvd' = [rcvd EXCEPT ![h] = Some(part1)]
           /\ output' = [output EXCEPT ![h] =
                            Some(RightPeerOutput(part1, part[h][1], prss[h]))]
    /\ net' = [net EXCEPT ![<<Peer(to_helper, Left), h>>] = Tail(@)]
    /\ pc' = [pc EXCEPT ![h] = "done"]
    /\ UNCHANGED <<to_helper, secret, input, prss, part, msgs>>
    /\ UNCHANGED sendVars
    /\ UNCHANGED otherVars

\* to_helper itself returns its PRSS pair.
TargetReturn(h) ==
    /\ pc[h] = "start"
    /\ h # Peer(to_helper, Left)
    /\ h # Peer(to_helper, Right)
    /\ output' = [output EXCEPT ![h] = Some(TargetOutput(prss[h]))]
    /\ pc' = [pc EXCEPT ![h] = "done"]
    /\ UNCHANGED <<to_helper, secret, input, prss, part, rcvd, net, msgs>>
    /\ UNCHANGED sendVars
    /\ UNCHANGED otherVars

\* Part I is not running.
SendIdle ==
    /\ items_in_batch = 1
    /\ batch_count = 1
    /\ inner = <<>>
    /\ last = NoCall
    /\ sent = [c \in Channels |-> <<>>]
    /\ accepted = [c \in Channels |-> [r \in RecordIds |-> <<>>]]

\* The three helpers are about to call reshare(ctx, record_id, to_helper)
\* on a replicated sharing of secret; PRSS values agree between neighbours.
ReshareInit ==
    /\ SendIdle
    /\ OthersIdle
    /\ to_helper \in Roles
    /\ secret \in FieldInputs
    /\ \E x1 \in FieldInputs, x2 \in FieldInputs :
          input = SharesOf(x1, x2, FSub(FSub(secret, x1), x2))
    /\ \E s1 \in FieldInputs, s2 \in FieldInputs, s3 \in FieldInputs :
          prss = [h \in Roles |->
                    CASE h = "H1" -> <<s1, s2>>
                      [] h = "H2" -> <<s2, s3>>
                      [] OTHER    -> <<s3, s1>>]
    /\ pc = [h \in Roles |-> "start"]
    /\ part = [h \in Roles |-> None]
    /\ rcvd = [h \in Roles |-> None]
    /\ net = [ch \in Roles \X Roles |-> <<>>]
    /\ output = [h \in Roles |-> None]
    /\ msgs = 0

ReshareNext ==
    \E h \in Roles :
        \/ SendPart1(h)
        \/ SendPart2(h)
        \/ ReceivePart2(h)
        \/ ReceivePart1(h)
        \/ TargetReturn(h)

ReshareSpec == ReshareInit /\ [][ReshareNext]_vars

\* What helper h does in reshare.
HelperStep(h) ==
    \/ SendPart1(h)
    \/ SendPart2(h)
    \/ ReceivePart2(h)
    \/ ReceivePart1(h)
    \/ TargetReturn(h)

\* The executor polls the future of every helper that can go on, and a
\* message sent is delivered.
ReshareFairSpec == ReshareSpec /\ \A h \in Roles : WF_vars(HelperStep(h))

(***************************************************************************)
(*                        Properties of reshare                            *)
(***************************************************************************)

AllDone == \A h \in Roles : pc[h] = "done"
OutputShares == [h \in Roles |-> Head(output[h])]

\* C10: semi-honest reshare preserves the secret: for every secret, every
\* replicated sharing of it and every to_helper, once the three helpers
\* have run reshare on the record the three output shares reconstruct to
\* the secret the input shares reconstruct to.
C10_ResharePreservesSecret ==
    AllDone => /\ Reconstruct(input) = secret
               /\ Reconstruct(OutputShares) = secret

\* A reshare to H3 of a non-zero secret has ended, with fresh shares.
C10_Witness ==
    /\ AllDone
    /\ to_helper = "H3"
    /\ secret = PRIME - 1
    /\ prss["H1"] = <<1, PRIME - 1>>
    /\ \A h \in Roles : OutputShares[h] # input[h]

\* The share the test generates_unique_shares gives the target, which skips
\* reshare: ctx.prss().generate_fields(record_id).into()
PrssPair(h) == Replicated(prss[h][1], prss[h][2])

\* The outputs when the target ignores its input share as that test does.
OutputsWithTargetPrss == [OutputShares EXCEPT ![to_helper] = PrssPair(to_helper)]

\* C11: in semi-honest reshare the output of to_helper is its PRSS pair
\* (r.0, r.1), whatever its input share is; to_helper never computes a part,
\* sends nothing and receives nothing, no message is ever in flight from it
\* or to it; and putting the PRSS pair in place of its output (the target
\* that skips reshare) still reconstructs the secret.
C11_TargetOutputIsPrssPair ==
    /\ pc[to_helper] = "done" => output[to_helper] = Some(PrssPair(to_helper))
    /\ part[to_helper] = None
    /\ rcvd[to_helper] = None
    /\ \A h \in Roles : net[<<to_helper, h>>] = <<>> /\ net[<<h, to_helper>>] = <<>>
    /\ AllDone => /\ msgs = 2
                  /\ Reconstruct(OutputsWithTargetPrss) = secret

\* A reshare to H2 has ended; the input share of H2 is not its PRSS pair.
C11_Witness ==
    /\ AllDone
    /\ to_helper = "H2"
    /\ input["H2"] # PrssPair("H2")
    /\ prss["H2"][1] # prss["H2"][2]
    /\ OutputShares["H2"] = PrssPair("H2")
    /\ secret = 1

(***************************************************************************)
(*                     Part III: malicious reshare                         *)
(***************************************************************************)

FMul(a, b) == (a * b) % PRIME

\* The two semi-honest reshares of a malicious reshare: of x under ctx and
\* of r*x under ctx.narrow(&ReshareRx), each with its own channels and PRSS.
Lanes == {"x", "rx"}

\* Shares and PRSS seeds of the malicious runs.
ShareInputs == {0, PRIME - 1}
PrssSeeds == {0, 1}

\* The PRSS value helper pair i (1..3) draws for a lane from the seed.
PrssValue(seed, lane, i) ==
    (seed + 7 * i + (IF lane = "rx" THEN 3 ELSE 0)) % PRIME

\* Fp32BitPrime::ONE, the additive_error of malicious_validation_fail
ONE == 1

\* MaliciousReplicated::new(x, rx)
MaliciousReplicatedSwapped(x, rx) == [x |-> rx, rx |-> x]
MaliciousReplicated(x, rx) == [x |-> x, rx |-> rx]

\* part1 = input.left() + input.right() - r1 + additive_error
AttackPart1ErrorDropped(share, r, additive_error) ==
    FSub(FAdd(share.left, share.right), r[2])
AttackPart1(share, r, additive_error) ==
    FAdd(FSub(FAdd(share.left, share.right), r[2]), additive_error)

\* part2 = input.left() - r0 + additive_error
AttackPart2(share, r, additive_error) ==
    FAdd(FSub(share.left, r[1]), additive_error)

\* What helper h sends in a lane: the spoiled part when it is the actor.
MPart1(h, lane) ==
    IF h = malicious_actor
    THEN AttackPart1(m_input[lane][h], m_prss[lane][h], ONE)
    ELSE Part1(m_input[lane][h], m_prss[lane][h])

MPart2(h, lane) ==
    IF h = malicious_actor
    THEN AttackPart2(m_input[lane][h], m_prss[lane][h], ONE)
    ELSE Part2(m_input[lane][h], m_prss[lane][h])

MPart(h, lane) ==
    IF h = Peer(to_helper, Left) THEN MPart1(h, lane) ELSE MPart2(h, lane)

\* The peer a helper that knows the input exchanges parts with.
OtherPeer(h) ==
    IF h = Peer(to_helper, Left)
    THEN Peer(to_helper, Right)
    ELSE Peer(to_helper, Left)

\* The step of the context a lane's reshare runs on: ctx itself for x,
\* ctx.narrow(&ReshareRx) for rx.  A channel is a step and a pair of roles.
LaneStepShared(lane) == "ctx"
LaneStep(lane) == IF lane = "rx" THEN "ctx/ReshareRx" ELSE "ctx"
Steps == {LaneStep(lane) : lane \in Lanes}

\* let random_constant_ctx = ctx.narrow(&RandomnessForValidation);
RandomConstantStep == "ctx/RandomnessForValidation"

\* send_channel(to).send(record_id, v) on the channel of a step
MSend(channels, step, from, to, v) ==
    [channels EXCEPT ![step][<<from, to>>] = Append(@, v)]

\* try_join(self.rx().reshare(..), self.x().reshare(..)), first poll of a
\* helper that knows the input: each lane, rx first, computes its part
\* and sends it.
MSendParts(h) ==
    /\ m_pc[h] = "start"
    /\ h # to_helper
    /\ m_part' = [lane \in Lanes |->
                    [m_part[lane] EXCEPT ![h] = Some(MPart(h, lane))]]
    /\ m_net' = MSend(MSend(m_net, LaneStep("rx"), h, OtherPeer(h), MPart(h, "rx")),
                      LaneStep("x"), h, OtherPeer(h), MPart(h, "x"))
    /\ m_pc' = [m_pc EXCEPT ![h] = "receive"]
    /\ UNCHANGED <<malicious_actor, r_key, random_constant, m_input, m_prss,
                   m_lane, m_output, absorbed, validated>>
    /\ UNCHANGED notMaliciousVars

\* One lane of a helper wakes up with the other peer's part and returns.
MReceive(h, lane) ==
    /\ m_pc[h] = "receive"
    /\ m_lane[lane][h] = None
    /\ m_net[LaneStep(lane)][<<OtherPeer(h), h>>] # <<>>
    /\ LET got == Head(m_net[LaneStep(lane)][<<OtherPeer(h), h>>])
           mine == Head(m_part[lane][h])
           out == IF h = Peer(to_helper, Left)
                  THEN LeftPeerOutput(mine, got, m_prss[lane][h])
                  ELSE RightPeerOutput(got, mine, m_prss[lane][h])
       IN  m_lane' = [m_lane EXCEPT ![lane][h] = Some(out)]
    /\ m_net' = [m_net EXCEPT ![LaneStep(lane)][<<OtherPeer(h), h>>] = Tail(@)]
    /\ UNCHANGED <<malicious_actor, r_key, random_constant, m_input, m_prss,
                   m_pc, m_part, m_output, absorbed, validated>>
    /\ UNCHANGED notMaliciousVars

\* Both lanes have returned: MaliciousReplicated::new(x, rx),
\* accumulate_macs(record_id, &malicious_input), Ok(malicious_input).
MJoin(h) ==
    /\ m_pc[h] = "receive"
    /\ \A lane \in Lanes : m_lane[lane][h] # None
    /\ m_output' = [m_output EXCEPT ![h] =
           Some(MaliciousReplicated(Head(m_lane["x"][h]), Head(m_lane["rx"][h])))]
    /\ absorbed' = absorbed \cup {h}
    /\ m_pc' = [m_pc EXCEPT ![h] = "done"]
    /\ UNCHANGED <<malicious_actor, r_key, random_constant, m_input, m_prss,
                   m_part, m_net, m_lane, validated>>
    /\ UNCHANGED notMaliciousVars

\* to_helper: both lanes return their PRSS pair at once, then the same.
MTargetReshare(h) ==
    /\ m_pc[h] = "start"
    /\ h = to_helper
    /\ m_lane' = [lane \in Lanes |->
                    [m_lane[lane] EXCEPT ![h] = Some(TargetOutput(m_prss[lane][h]))]]
    /\ m_output' = [m_output EXCEPT ![h] =
           Some(MaliciousReplicated(TargetOutput(m_prss["x"][h]),
                                    TargetOutput(m_prss["rx"][h])))]
    /\ absorbed' = absorbed \cup {h}
    /\ m_pc' = [m_pc EXCEPT ![h] = "done"]
    /\ UNCHANGED <<malicious_actor, r_key, random_constant, m_input, m_prss,
                   m_part, m_net, validated>>
    /\ UNCHANGED notMaliciousVars

\* The send of a lane's part fails at the first poll: try_join returns the
\* error at once.  rx is polled first, so when the send of x fails the part
\* of rx has been sent.
MSendFails(h, lane) ==
    /\ m_pc[h] = "start"
    /\ h # to_helper
    /\ IF lane = "rx"
       THEN UNCHANGED <<m_part, m_net>>
       ELSE /\ m_part' = [m_part EXCEPT !["rx"][h] = Some(MPart(h, "rx"))]
            /\ m_net' = MSend(m_net, LaneStep("rx"), h, OtherPeer(h), MPart(h, "rx"))
    /\ m_output' = [m_output EXCEPT ![h] = Some([err |-> lane])]
    /\ m_pc' = [m_pc EXCEPT ![h] = "failed"]
    /\ UNCHANGED <<malicious_actor, r_key, random_constant, m_input, m_prss,
                   m_lane, absorbed, validated>>
    /\ UNCHANGED notMaliciousVars

\* The receive of a lane fails: try_join returns the error at once.
MReceiveFails(h, lane) ==
    /\ m_pc[h] = "receive"
    /\ m_lane[lane][h] = None
    /\ m_output' = [m_output EXCEPT ![h] = Some([err |-> lane])]
    /\ m_pc' = [m_pc EXCEPT ![h] = "failed"]
    /\ UNCHANGED <<malicious_actor, r_key, random_constant, m_input, m_prss,
                   m_part, m_net, m_lane, absorbed, validated>>
    /\ UNCHANGED notMaliciousVars

\* The value the helpers' output shares of a lane reconstruct to.
LaneValue(lane) == Reconstruct([h \in Roles |-> Head(m_output[h])[lane]])

\* MaliciousValidator::validate: the accumulators u and w have absorbed
\* (x, r*x) of the reshared record with the coefficient random_constant;
\* they are revealed with r and validation succeeds iff r*u = w.
ValidateResult ==
    LET u == FMul(random_constant, LaneValue("x"))
        w == FMul(random_constant, LaneValue("rx"))
    IN  IF FMul(r_key, u) = w THEN "Ok" ELSE "MaliciousSecurityCheckFailed"

\* v.validate(m_reshared_a), once every helper has absorbed its output.
Validate ==
    /\ validated = None
    /\ absorbed = Roles
    /\ validated' = Some(ValidateResult)
    /\ UNCHANGED <<malicious_actor, r_key, random_constant, m_input, m_prss,
                   m_pc, m_part, m_net, m_lane, m_output, absorbed>>
    /\ UNCHANGED notMaliciousVars

\* The actors of the runs: nobody (tests::malicious::correct) or one of the
\* two helpers that know the input (malicious_validation_fail).
Actors(target) == {NoChannel, Peer(target, Left), Peer(target, Right)}

\* The helpers hold a sharing of secret and, after upgrade, of r * secret,
\* and are about to call the malicious reshare on the record.
MaliciousInit ==
    /\ SendIdle
    /\ to_helper \in Roles
    /\ malicious_actor \in Actors(to_helper)
    /\ secret \in FieldInputs
    /\ r_key \in FieldInputs
    /\ random_constant \in FieldInputs
    /\ \E x1 \in ShareInputs, x2 \in ShareInputs :
          m_input =
            [lane \in Lanes |->
                IF lane = "x"
                THEN SharesOf(x1, x2, FSub(FSub(secret, x1), x2))
                ELSE SharesOf(x2, x1, FSub(FSub(FMul(r_key, secret), x2), x1))]
    /\ \E seed \in PrssSeeds :
          m_prss =
            [lane \in Lanes |->
                [h \in Roles |->
                    CASE h = "H1" -> <<PrssValue(seed, lane, 1), PrssValue(seed, lane, 2)>>
                      [] h = "H2" -> <<PrssValue(seed, lane, 2), PrssValue(seed, lane, 3)>>
                      [] OTHER    -> <<PrssValue(seed, lane, 3), PrssValue(seed, lane, 1)>>]]
    /\ m_pc = [h \in Roles |-> "start"]
    /\ m_part = [lane \in Lanes |-> [h \in Roles |-> None]]
    /\ m_net = [step \in Steps |-> [ch \in Roles \X Roles |-> <<>>]]
    /\ m_lane = [lane \in Lanes |-> [h \in Roles |-> None]]
    /\ m_output = [h \in Roles |-> None]
    /\ absorbed = {}
    /\ validated = None
    /\ input = <<>>
    /\ prss = <<>>
    /\ pc = <<>>
    /\ part = <<>>
    /\ rcvd = <<>>
    /\ net = <<>>
    /\ output = <<>>
    /\ msgs = 0
    /\ SortIdle
    /\ IpaIdle
    /\ StreamIdle
    /\ WipIdle
    /\ VecIdle
    /\ RowIdle

MaliciousNext ==
    \/ \E h \in Roles :
          \/ MSendParts(h)
          \/ MJoin(h)
          \/ MTargetReshare(h)
          \/ \E lane \in Lanes : MReceive(h, lane)
    \/ Validate

MaliciousSpec == MaliciousInit /\ [][MaliciousNext]_vars

\* The runs in which a send or a receive of a helper may fail.
MaliciousErrNext ==
    \/ MaliciousNext
    \/ \E h \in Roles, lane \in Lanes :
          \/ MSendFails(h, lane)
          \/ MReceiveFails(h, lane)

MaliciousErrSpec == MaliciousInit /\ [][MaliciousErrNext]_vars

(***************************************************************************)
(*                   Properties of malicious reshare                       *)
(***************************************************************************)

Attacked == malicious_actor # NoChannel
Failed == validated = Some("MaliciousSecurityCheckFailed")

C13_MaliciousResharePreservesBoth ==
    ~Attacked =>
        /\ absorbed = Roles =>
              /\ LaneValue("x") = secret
              /\ LaneValue("rx") = FMul(r_key, secret)
        /\ validated # None => validated = Some("Ok")

\* An honest reshare to H3 of a non-zero secret under a key other than one
\* has been validated.
C13_Witness ==
    /\ ~Attacked
    /\ to_helper = "H3"
    /\ secret = PRIME - 1
    /\ r_key = PRIME - 1
    /\ random_constant = 1
    /\ validated = Some("Ok")
    /\ \A h \in Roles : Head(m_output[h]).x # m_input["x"][h]

(***************************************************************************)
(*                       Part IV: the sort driver                          *)
(***************************************************************************)

\* Bounds of the model: rows of the input and bits of a match key.
MaxRows == 3
MaxNumBits == 2

Min(a, b) == IF a < b THEN a ELSE b

RECURSIVE Pow2(_)
Pow2(k) == IF k = 0 THEN 1 ELSE 2 * Pow2(k - 1)

\* The random permutations of n rows a shuffle can draw.
Perms(n) == {p \in [1..n -> 1..n] : \A i, j \in 1..n : p[i] = p[j] => i = j}

\* The value of row i in a list of bit columns, least significant first.
RECURSIVE RowValue(_, _)
RowValue(cols, i) ==
    IF cols = <<>> THEN 0
    ELSE cols[1][i] + 2 * RowValue(Tail(cols), i)

\* multi_bit_permutation: the stable permutation that sorts the rows by the
\* value of the given bit columns; entry i is the destination of row i.
MultiBitPermutation(cols) ==
    LET n == Len(cols[1])
    IN  [i \in 1..n |->
            Cardinality({j \in 1..n :
                \/ RowValue(cols, j) < RowValue(cols, i)
                \/ RowValue(cols, j) = RowValue(cols, i) /\ j < i})]

\* shuffle_shares with the permutation pi: row i goes to place pi[i].
Shuffle(v, pi) ==
    [k \in 1..Len(v) |-> v[CHOOSE i \in 1..Len(v) : pi[i] = k]]

\* shuffle_and_reveal_permutation: the shuffled permutation is revealed.
ShuffleAndReveal(permutation, pi) ==
    [randoms_for_shuffle |-> pi, revealed |-> Shuffle(permutation, pi)]

\* apply_inv(permutation, values): values[i] goes to place permutation[i].
ApplyInv(permutation, v) ==
    [k \in 1..Len(v) |-> v[CHOOSE i \in 1..Len(v) : permutation[i] = k - 1]]

\* apply(permutation, values): place i receives values[permutation[i]].
Apply(permutation, v) == [i \in 1..Len(v) |-> v[permutation[i] + 1]]

\* unshuffle: the inverse of Shuffle with the same randoms.
Unshuffle(v, pi) == [i \in 1..Len(v) |-> v[pi[i]]]

\* secureapplyinv: shuffle the input as the permutation was shuffled, then
\* apply the inverse of the revealed permutation.
SecureApplyInv(v, randoms, revealed) == ApplyInv(revealed, Shuffle(v, randoms))

\* compose(randoms, revealed, rho): apply the revealed permutation to rho and
\* unshuffle, which gives rho after the shuffled permutation.
Compose(randoms, revealed, rho) == Unshuffle(Apply(revealed, rho), randoms)

\* sort_keys[0].len()
InputLen == Len(sort_keys[1])

\* &sort_keys[lo..hi]
Columns(lo, hi) == SubSeq(sort_keys, lo + 1, hi)

\* let last_bit_num = std::cmp::min(num_multi_bits, num_bits);
FirstLastBitNumOne == Min(1, num_bits)
FirstLastBitNum == Min(num_multi_bits, num_bits)

\* let last_bit_num = std::cmp::min(bit_num + num_multi_bits, num_bits);
LastBitNumOneBit(b) == Min(b + 1, num_bits)
LastBitNum(b) == Min(b + num_multi_bits, num_bits)

\* (bit_num..last_bit_num).map(|idx| secureapplyinv(sort_keys[idx], ..)):
\* the next block of bits, sorted by the less significant bits.
NextFewBitsUnsorted(randoms, revealed, b) == Columns(b, LastBitNum(b))
NextFewBitsSorted(randoms, revealed, b) ==
    [k \in 1..(LastBitNum(b) - b) |->
        SecureApplyInv(sort_keys[b + k], randoms, revealed)]

\* The steps of protocol/sort that generate_permutation_opt narrows by.
Sort(b) == <<"Sort", b>>
MultiApplyInvShared(idx) == <<"MultiApplyInv">>
MultiApplyInv(idx) == <<"MultiApplyInv", idx>>
BitPermutationStep == <<"BitPermutationStep">>
ShuffleRevealPermutation == <<"ShuffleRevealPermutation">>
ComposeStep == <<"ComposeStep">>

\* A call of a sub-protocol: the context it runs under, the key bits its
\* input covers, and the call whose revealed permutation and shuffle
\* randomness it is given (None when it is given neither).
Call(protocol, step, bits, given) ==
    [protocol |-> protocol, step |-> step, bits |-> bits, given |-> given]

\* multi_bit_permutation(ctx_0.narrow(&BitPermutationStep),
\*                       &sort_keys[0..last_bit_num])
LsbCalls ==
    {Call("multi_bit_permutation", <<"ctx", Sort(0), BitPermutationStep>>,
          0..(FirstLastBitNum - 1), None)}

\* A plausible slip: the composition is started before the block's bit
\* permutation.
BlockCallsComposeEarly(b) ==
    LET ctx_bit == <<"ctx", Sort(b)>>
        shuffle == Append(ctx_bit, ShuffleRevealPermutation)
    IN  << {Call("shuffle_and_reveal_permutation", shuffle, 0..(b - 1), None)},
           {Call("secureapplyinv", Append(ctx_bit, MultiApplyInv(idx)),
                 {idx}, Some(shuffle)) : idx \in b..(LastBitNum(b) - 1)},
           {Call("compose", Append(ctx_bit, ComposeStep),
                 0..(LastBitNum(b) - 1), Some(shuffle))},
           {Call("multi_bit_permutation", Append(ctx_bit, BitPermutationStep),
                 b..(LastBitNum(b) - 1), None)} >>

\* The calls of the loop iteration of bit_num = b, in the order of their
\* awaits: shuffle_and_reveal_permutation, the secureapplyinv calls joined
\* by try_join_all, multi_bit_permutation, compose; secureapplyinv and
\* compose are given revealed_and_random_permutations, which the
\* iteration's shuffle_and_reveal_permutation returned.
BlockCalls(b) ==
    LET ctx_bit == <<"ctx", Sort(b)>>
        shuffle == Append(ctx_bit, ShuffleRevealPermutation)
    IN  << {Call("shuffle_and_reveal_permutation", shuffle, 0..(b - 1), None)},
           {Call("secureapplyinv", Append(ctx_bit, MultiApplyInv(idx)),
                 {idx}, Some(shuffle)) : idx \in b..(LastBitNum(b) - 1)},
           {Call("multi_bit_permutation", Append(ctx_bit, BitPermutationStep),
                 b..(LastBitNum(b) - 1), None)},
           {Call("compose", Append(ctx_bit, ComposeStep),
                 0..(LastBitNum(b) - 1), Some(shuffle))} >>

\* The first block: lsb_permutation = multi_bit_permutation(&sort_keys[0..last_bit_num])
LsbPermutation ==
    /\ sort_pc = "start"
    /\ composed' = MultiBitPermutation(Columns(0, FirstLastBitNum))
    /\ bit_num' = num_multi_bits
    /\ sort_pc' = "loop"
    /\ sort_calls' = <<LsbCalls>>
    /\ UNCHANGED <<sort_keys, num_bits, num_multi_bits, sort_permutation, sorted_rows>>
    /\ UNCHANGED notSortVars

\* One iteration of for bit_num in (num_multi_bits..num_bits).step_by(..)
SortBlock ==
    /\ sort_pc = "loop"
    /\ bit_num < num_bits
    /\ \E pi \in Perms(InputLen) :
          LET rr == ShuffleAndReveal(composed, pi)
              sorted == NextFewBitsSorted(rr.randoms_for_shuffle, rr.revealed, bit_num)
              next_few_bits_permutation == MultiBitPermutation(sorted)
          IN  composed' = Compose(rr.randoms_for_shuffle, rr.revealed,
                                  next_few_bits_permutation)
    /\ sort_calls' = sort_calls \o BlockCalls(bit_num)
    /\ bit_num' = bit_num + num_multi_bits
    /\ UNCHANGED <<sort_keys, num_bits, num_multi_bits, sort_pc,
                   sort_permutation, sorted_rows>>
    /\ UNCHANGED notSortVars

\* Ok(composed_less_significant_bits_permutation)
SortReturn ==
    /\ sort_pc = "loop"
    /\ bit_num >= num_bits
    /\ sort_pc' = "returned"
    /\ UNCHANGED <<sort_keys, num_bits, num_multi_bits, bit_num, composed,
                   sort_permutation, sorted_rows, sort_calls>>
    /\ UNCHANGED notSortVars

\* generate_permutation_and_reveal_shuffled: the permutation that
\* generate_permutation_opt returned is shuffled and revealed.
RevealShuffled ==
    /\ sort_pc = "returned"
    /\ \E pi \in Perms(InputLen) :
          sort_permutation' = Some(ShuffleAndReveal(composed, pi))
    /\ sort_pc' = "revealed"
    /\ UNCHANGED <<sort_keys, num_bits, num_multi_bits, bit_num, composed,
                   sorted_rows, sort_calls>>
    /\ UNCHANGED notSortVars

\* The rows the helpers sort: the match key of row i and its sidecar.
InputRows ==
    [i \in 1..InputLen |->
        [match_key |-> RowValue(sort_keys, i), sidecar |-> i]]

\* shuffle_shares(input, randoms_for_shuffle), then
\* apply_inv(&sort_permutation.revealed, &mut shuffled_objects)
ApplySortUnshuffled(rows, sp) == ApplyInv(sp.revealed, rows)
ApplySort(rows, sp) ==
    ApplyInv(sp.revealed, Shuffle(rows, sp.randoms_for_shuffle))

\* apply_sort_permutation(ctx, input, &sort_permutation)
ApplySortPermutation ==
    /\ sort_pc = "revealed"
    /\ sorted_rows' = Some(ApplySort(InputRows, Head(sort_permutation)))
    /\ sort_pc' = "applied"
    /\ UNCHANGED <<sort_keys, num_bits, num_multi_bits, bit_num, composed,
                   sort_permutation, sort_calls>>
    /\ UNCHANGED notSortVars

\* The helpers hold the bits of 1..MaxRows match keys of num_bits bits.
SortInit ==
    /\ SendIdle
    /\ ReshareIdle
    /\ MaliciousIdle
    /\ IpaIdle
    /\ StreamIdle
    /\ WipIdle
    /\ VecIdle
    /\ RowIdle
    /\ num_bits \in 1..MaxNumBits
    /\ num_multi_bits \in 1..MaxNumBits
    /\ \E n \in 1..MaxRows :
          sort_keys \in [1..num_bits -> [1..n -> {0, 1}]]
    /\ bit_num = 0
    /\ composed = <<>>
    /\ sort_pc = "start"
    /\ sort_permutation = None
    /\ sorted_rows = None
    /\ sort_calls = <<>>

SortNext ==
    \/ LsbPermutation
    \/ SortBlock
    \/ SortReturn
    \/ RevealShuffled
    \/ ApplySortPermutation

SortSpec == SortInit /\ [][SortNext]_vars

(***************************************************************************)
(*                        Properties of the sort                           *)
(***************************************************************************)

Rows == 1..InputLen
Key(i) == RowValue(sort_keys, i)
Returned == sort_pc \in {"returned", "revealed", "applied"}

\* C14: generate_permutation_opt returns a permutation of 0..n-1 that sorts
\* the keys: the entries are a bijection from the rows onto 0..n-1, and
\* placing key i at position composed[i] gives the keys in non-decreasing
\* order, for every key list and every num_multi_bits >= 1.
C14_PermutationSortsKeys ==
    Returned =>
        /\ Len(composed) = InputLen
        /\ {composed[i] : i \in Rows} = 0..(InputLen - 1)
        /\ \A i, j \in Rows : composed[i] < composed[j] => Key(i) <= Key(j)

\* Three two-bit keys in decreasing order were sorted bit by bit.
C14_Witness ==
    /\ sort_pc = "returned"
    /\ num_bits = 2
    /\ num_multi_bits = 1
    /\ InputLen = 3
    /\ Key(1) = 3 /\ Key(2) = 2 /\ Key(3) = 1
    /\ composed = <<2, 1, 0>>

\* C15: the sort is stable: of two rows with equal keys the one with the
\* lower original index gets the lower position, also when the keys span
\* several blocks of num_multi_bits bits.
C15_SortIsStable ==
    Returned =>
        \A i, j \in Rows :
            (Key(i) = Key(j) /\ i < j) => composed[i] < composed[j]

\* Rows 1 and 3 have the same two-bit key, sorted in two blocks, and a
\* smaller key sits between them.
C15_Witness ==
    /\ sort_pc = "returned"
    /\ num_bits = 2
    /\ num_multi_bits = 1
    /\ InputLen = 3
    /\ Key(1) = 2 /\ Key(2) = 1 /\ Key(3) = 2
    /\ composed = <<1, 0, 2>>

\* C16: apply_sort_permutation returns the input rows reordered by the sort
\* permutation: as many rows as the input, every input row exactly once and
\* unaltered, in non-decreasing order of match key, rows with equal keys in
\* input order (the plaintext rows sorted by match key).
C16_ApplySortReordersRows ==
    sort_pc = "applied" =>
        LET out == Head(sorted_rows)
        IN  /\ Len(out) = InputLen
            /\ \A i \in Rows :
                  Cardinality({k \in 1..Len(out) : out[k] = InputRows[i]}) = 1
            /\ \A k \in 1..(Len(out) - 1) :
                  \/ out[k].match_key < out[k + 1].match_key
                  \/ /\ out[k].match_key = out[k + 1].match_key
                     /\ out[k].sidecar < out[k + 1].sidecar

\* Three rows were shuffled with a permutation other than the identity and
\* came out sorted.
C16_Witness ==
    /\ sort_pc = "applied"
    /\ InputLen = 3
    /\ Key(1) = 2 /\ Key(2) = 0 /\ Key(3) = 2
    /\ Head(sort_permutation).randoms_for_shuffle = <<3, 1, 2>>
    /\ Head(sorted_rows) = <<InputRows[2], InputRows[1], InputRows[3]>>

(***************************************************************************)
(*              The sub-protocols the sort driver starts                   *)
(***************************************************************************)

\* Bound of the model: bits of a key when the driver's calls are followed.
MaxDriverBits == 4

\* Rows of the input when the driver's calls are followed.
DriverRows == {1, 2}

\* The helpers hold the bits of one or two match keys of up to
\* MaxDriverBits bits.
SortDriverInit ==
    /\ SendIdle
    /\ ReshareIdle
    /\ MaliciousIdle
    /\ IpaIdle
    /\ StreamIdle
    /\ WipIdle
    /\ VecIdle
    /\ RowIdle
    /\ num_bits \in 1..MaxDriverBits
    /\ num_multi_bits \in 1..MaxDriverBits
    /\ \E n \in DriverRows :
          sort_keys \in [1..num_bits -> [1..n -> {0, 1}]]
    /\ bit_num = 0
    /\ composed = <<>>
    /\ sort_pc = "start"
    /\ sort_permutation = None
    /\ sorted_rows = None
    /\ sort_calls = <<>>

SortDriverSpec == SortDriverInit /\ [][SortNext]_vars

Protocols(group) == {c.protocol : c \in group}
BitsOf(group) == UNION {c.bits : c \in group}
IsBitPermutation(group) == "multi_bit_permutation" \in Protocols(group)

\* The blocks processed so far, in the order they were processed: a block
\* is processed by the multi_bit_permutation that sorts by its bits.
BlocksDone == SelectSeq(sort_calls, IsBitPermutation)

\* The k-th block of num_multi_bits bits, truncated at num_bits.
ExpectedBlock(k) ==
    {i \in 0..(num_bits - 1) :
        (k - 1) * num_multi_bits <= i /\ i < k * num_multi_bits}

AllCalls == UNION {sort_calls[k] : k \in 1..Len(sort_calls)}

ShuffleCalls == {c \in AllCalls : c.protocol = "shuffle_and_reveal_permutation"}

\* C33: generate_permutation_opt consumes the key bits in blocks [0,m),
\* [m,2m), ... of m = num_multi_bits bits, the last truncated at num_bits,
\* from least to most significant; every bit index below num_bits is in
\* exactly one block; the bits of a later block are the ones brought into
\* order by its secureapplyinv calls; when num_multi_bits >= num_bits only
\* the first block is processed and nothing is shuffled and revealed.
C33_BlocksCoverKeyBits ==
    /\ \A k \in 1..Len(BlocksDone) :
           BitsOf(BlocksDone[k]) = ExpectedBlock(k)
    /\ \A k \in 1..(Len(sort_calls) - 1) :
           "secureapplyinv" \in Protocols(sort_calls[k]) =>
               BitsOf(sort_calls[k]) = BitsOf(sort_calls[k + 1])
    /\ Returned =>
           \A i \in 0..(num_bits - 1) :
               Cardinality({k \in 1..Len(BlocksDone) :
                               i \in BitsOf(BlocksDone[k])}) = 1
    /\ (Returned /\ num_multi_bits >= num_bits) =>
           /\ Len(BlocksDone) = 1
           /\ ShuffleCalls = {}

\* C33 witness: a key of three bits was sorted in blocks of two bits, the
\* last block truncated to one bit.
C33_Witness ==
    /\ sort_pc = "returned"
    /\ num_bits = 3
    /\ num_multi_bits = 2
    /\ Len(BlocksDone) = 2
    /\ BitsOf(BlocksDone[2]) = {2}

\* The protocols of the groups of a block after the first, in order.
BlockOrder ==
    << {"shuffle_and_reveal_permutation"}, {"secureapplyinv"},
       {"multi_bit_permutation"}, {"compose"} >>

\* The shuffle_and_reveal_permutation call of the block that group k is in.
ShuffleOfBlock(k) ==
    CHOOSE c \in sort_calls[k - ((k - 2) % 4)] : TRUE

\* C34: in every block after the first the steps run in the order
\* shuffle-and-reveal of the previous composed permutation, secure apply
\* inverse of the block's bits, bit permutation of the block, composition;
\* secure apply inverse and composition are given the permutation and the
\* randomness that the block's shuffle-and-reveal returned; the final
\* composed permutation is returned without being shuffled and revealed.
C34_BlockStepsInOrder ==
    /\ \A k \in 2..Len(sort_calls) :
           /\ Protocols(sort_calls[k]) = BlockOrder[((k - 2) % 4) + 1]
           /\ \A c \in sort_calls[k] :
                  c.protocol \in {"secureapplyinv", "compose"} =>
                      /\ ShuffleOfBlock(k).protocol = "shuffle_and_reveal_permutation"
                      /\ c.given = Some(ShuffleOfBlock(k).step)
    /\ \A c \in ShuffleCalls :
           /\ c.bits # 0..(num_bits - 1)
           /\ \E k \in 1..Len(BlocksDone) :
                  c.bits = UNION {ExpectedBlock(j) : j \in 1..k}
    /\ Returned =>
           /\ Len(sort_calls) = 1 + 4 * (Len(BlocksDone) - 1)
           /\ Cardinality(ShuffleCalls) = Len(BlocksDone) - 1

\* C34 witness: a key of three bits was sorted bit by bit, in three blocks.
C34_Witness ==
    /\ sort_pc = "returned"
    /\ num_bits = 3
    /\ num_multi_bits = 1
    /\ Len(BlocksDone) = 3
    /\ InputLen = 2

\* The Sort(bit_num) step a call runs under.
SortStepOf(c) == c.step[2]

\* The block (from 1) that the g-th group of calls belongs to: the first
\* group is the first block, every later block has four groups.
BlockOfGroup(g) == IF g = 1 THEN 1 ELSE 2 + ((g - 2) \div 4)

\* C35: the sub-protocols generate_permutation_opt starts run under
\* pairwise distinct step paths: every block under its own Sort(bit_num),
\* the steps inside a block differ, and the secureapplyinv calls joined
\* inside a block run under distinct MultiApplyInv(idx) steps.
C35_StepPathsDistinct ==
    /\ \A c, d \in AllCalls : c.step = d.step => c = d
    /\ \A k \in 1..Len(sort_calls) :
           \A c, d \in sort_calls[k] : c.bits # d.bits => c.step # d.step
    /\ \A g \in 1..Len(sort_calls) :
           \A c \in sort_calls[g] :
               SortStepOf(c) = Sort((BlockOfGroup(g) - 1) * num_multi_bits)

\* C35 witness: a key of four bits was sorted in blocks of two bits, so
\* that two secureapplyinv calls ran joined in the second block.
C35_Witness ==
    /\ sort_pc = "returned"
    /\ num_bits = 4
    /\ num_multi_bits = 2
    /\ \E k \in 1..Len(sort_calls) :
           /\ Protocols(sort_calls[k]) = {"secureapplyinv"}
           /\ Cardinality(sort_calls[k]) = 2

(***************************************************************************)
(*                   Part V: the attribution pipelines                     *)
(***************************************************************************)

\* Bound of the model: rows of a drawn query input.
MaxIpaRows == 3

\* The two users of the tests.
Users == {12345, 68362}

\* A report: source reports carry a breakdown key, trigger reports a value.
Source(user, bk, ts) ==
    [match_key |-> user, is_trigger_bit |-> 0, breakdown_key |-> bk,
     trigger_value |-> 0, timestamp |-> ts]
Trigger(user, tv, ts) ==
    [match_key |-> user, is_trigger_bit |-> 1, breakdown_key |-> 0,
     trigger_value |-> tv, timestamp |-> ts]

\* The reports a drawn input is made of; the row at index i has timestamp i.
RowChoices(ts) ==
    {Source(u, bk, ts) : u \in Users, bk \in {1, 2}}
        \cup {Trigger(u, tv, ts) : u \in Users, tv \in {2, 5}}

DrawnInputs ==
    UNION {{rows \in [1..n -> UNION {RowChoices(ts) : ts \in 1..n}] :
                \A i \in 1..n : rows[i].timestamp = i} : n \in 1..MaxIpaRows}

\* The five records of tests::semi_honest.
IpaScenario ==
    << Source(12345, 1, 1), Source(12345, 2, 2), Source(68362, 1, 3),
       Trigger(12345, 5, 4), Trigger(68362, 2, 5) >>

RECURSIVE SetSum(_, _)
SetSum(S, f) ==
    IF S = {} THEN 0
    ELSE LET x == CHOOSE y \in S : TRUE
         IN  f[x] + SetSum(S \ {x}, f)

\* generate_permutation_and_reveal_shuffled before its shuffle: the stable
\* permutation that sorts the rows by match key.
GeneratePermutation(rows) ==
    [i \in 1..Len(rows) |->
        Cardinality({j \in 1..Len(rows) :
            \/ rows[j].match_key < rows[i].match_key
            \/ rows[j].match_key = rows[i].match_key /\ j < i})]

\* bitwise_equal(a, b): 1 iff the two values agree in every bit
BitwiseEqual(a, b) == IF a = b THEN 1 ELSE 0

\* Some(Replicated::ZERO).chain(bitwise_equal(row.mk_shares, next_row.mk_shares))
HelperBitsOfNextRow(rows) ==
    [i \in 1..Len(rows) |->
        IF i = Len(rows) THEN 0 ELSE BitwiseEqual(rows[i], rows[i + 1])]
HelperBitsOfBreakdownKey(rows) ==
    [i \in 1..Len(rows) |->
        IF i = 1 THEN 0
        ELSE BitwiseEqual(rows[i - 1].breakdown_key, rows[i].breakdown_key)]
HelperBits(rows) ==
    [i \in 1..Len(rows) |->
        IF i = 1 THEN 0
        ELSE BitwiseEqual(rows[i - 1].match_key, rows[i].match_key)]

\* The trigger values of the run of trigger reports of one user from row j.
RECURSIVE TriggerRun(_, _, _)
TriggerRun(rows, hb, j) ==
    IF j > Len(rows) THEN 0
    ELSE IF hb[j] = 0 \/ rows[j].is_trigger_bit = 0 THEN 0
    ELSE rows[j].trigger_value + TriggerRun(rows, hb, j + 1)

\* accumulate_credit: a source report gets the trigger values of the trigger
\* reports of its user that follow it before the next source report.
AccumulateCredit(rows, hb) ==
    [i \in 1..Len(rows) |->
        IF rows[i].is_trigger_bit = 1 THEN 0
        ELSE TriggerRun(rows, hb, i + 1)]

\* The credit of the rows of the same user before row i.
RECURSIVE RunningSum(_, _, _)
RunningSum(cr, hb, i) ==
    IF i = 1 \/ hb[i] = 0 THEN 0
    ELSE cr[i - 1] + RunningSum(cr, hb, i - 1)

Max0(a) == IF a < 0 THEN 0 ELSE a

\* credit_capping: the running sum of a user is clamped to the cap; what
\* follows once the cap is reached is forced to zero.
CreditCapping(cr, hb, cap) ==
    [i \in 1..Len(cr) |-> Min(cr[i], Max0(cap - RunningSum(cr, hb, i)))]

\* aggregate_credit: one row per breakdown key below max_bk with the sum of
\* the credits of the rows that carry it.
AggregateCredit(rows, cr, max_bk) ==
    [k \in 1..max_bk |->
        [breakdown_key |-> k - 1,
         credit |-> SetSum({i \in 1..Len(rows) : rows[i].breakdown_key = k - 1},
                           cr)]]

\* credit_capping(ctx.narrow(&Step::PerformUserCapping),
\*                &accumulated_credits, per_user_credit_cap)
UserCappedCreditsUncapped(cr, hb, cap) == cr
UserCappedCredits(cr, hb, cap) == CreditCapping(cr, hb, cap)

\* aggregate_credit(ctx.narrow(&Step::AggregateCredit),
\*                  &user_capped_credits, max_breakdown_key, ..)
AggregatedOneBucketLess(rows, cr, max_bk) == AggregateCredit(rows, cr, max_bk - 1)
Aggregated(rows, cr, max_bk) == AggregateCredit(rows, cr, max_bk)

\* ipa, up to generate_permutation_and_reveal_shuffled: modulus conversion
\* leaves the reconstructed keys as they are; the permutation that sorts the
\* match keys is shuffled and revealed.
GenSortPermutation ==
    /\ ipa_pc = "start"
    /\ \E pi \in Perms(Len(input_rows)) :
          ipa_permutation' =
              Some(ShuffleAndReveal(GeneratePermutation(input_rows), pi))
    /\ ipa_pc' = "sort"
    /\ UNCHANGED <<input_rows, per_user_credit_cap, max_breakdown_key,
                   ipa_sorted, helper_bits, credits, ss_bits, ipa_result>>
    /\ UNCHANGED notIpaVars

\* let sorted_rows = apply_sort_permutation(.., &sort_permutation)
IpaApplySort ==
    /\ ipa_pc = "sort"
    /\ ipa_sorted' = ApplySort(input_rows, Head(ipa_permutation))
    /\ ipa_permutation' = None
    /\ ipa_pc' = "helper_bits"
    /\ UNCHANGED <<input_rows, per_user_credit_cap, max_breakdown_key,
                   helper_bits, credits, ss_bits, ipa_result>>
    /\ UNCHANGED notIpaVars

\* set_total_records(sorted_rows.len() - 1) on no rows, in a build with
\* overflow checks: the subtraction panics.
ComputeHelperBitsOverflow ==
    /\ ipa_pc = "helper_bits"
    /\ Len(ipa_sorted) = 0
    /\ ipa_result' = Some("panic")
    /\ ipa_pc' = "panicked"
    /\ UNCHANGED <<input_rows, per_user_credit_cap, max_breakdown_key,
                   ipa_permutation, ipa_sorted, helper_bits, credits, ss_bits>>
    /\ UNCHANGED notIpaVars

\* let helper_bits = Some(Replicated::ZERO).into_iter().chain(..); on no
\* rows in a build without overflow checks the subtraction wraps and the
\* zip of the rows with the helper bits is empty.
ComputeHelperBits ==
    /\ ipa_pc = "helper_bits"
    /\ helper_bits' = HelperBits(ipa_sorted)
    /\ ipa_pc' = "accumulate"
    /\ UNCHANGED <<input_rows, per_user_credit_cap, max_breakdown_key,
                   ipa_permutation, ipa_sorted, credits, ss_bits, ipa_result>>
    /\ UNCHANGED notIpaVars

\* let accumulated_credits = accumulate_credit(.., &attribution_input_rows)
IpaAccumulateCredit ==
    /\ ipa_pc = "accumulate"
    /\ credits' = AccumulateCredit(ipa_sorted, helper_bits)
    /\ ipa_pc' = "capping"
    /\ UNCHANGED <<input_rows, per_user_credit_cap, max_breakdown_key,
                   ipa_permutation, ipa_sorted, helper_bits, ss_bits, ipa_result>>
    /\ UNCHANGED notIpaVars

\* let user_capped_credits = credit_capping(.., per_user_credit_cap)
IpaCreditCapping ==
    /\ ipa_pc = "capping"
    /\ credits' = UserCappedCredits(credits, helper_bits, per_user_credit_cap)
    /\ ipa_pc' = "aggregate"
    /\ UNCHANGED <<input_rows, per_user_credit_cap, max_breakdown_key,
                   ipa_permutation, ipa_sorted, helper_bits, ss_bits, ipa_result>>
    /\ UNCHANGED notIpaVars

\* aggregate_credit(.., &user_capped_credits, max_breakdown_key, ..)
IpaAggregateCredit ==
    /\ ipa_pc = "aggregate"
    /\ ipa_result' = Some(Aggregated(ipa_sorted, credits, max_breakdown_key))
    /\ ipa_pc' = "done"
    /\ UNCHANGED <<input_rows, per_user_credit_cap, max_breakdown_key,
                   ipa_permutation, ipa_sorted, helper_bits, credits, ss_bits>>
    /\ UNCHANGED notIpaVars

\* The sub-protocols ipa awaits at each point, in the order of the code.
SubProtocolsAt(at) ==
    CASE at = "start" -> {"convert_all_bits",
                          "generate_permutation_and_reveal_shuffled"}
      [] at = "sort" -> {"apply_sort_permutation"}
      [] at = "helper_bits" ->
            IF Len(ipa_sorted) > 1 THEN {"bitwise_equal"} ELSE {}
      [] at = "accumulate" -> {"accumulate_credit"}
      [] at = "capping" -> {"credit_capping"}
      [] at = "aggregate" -> {"aggregate_credit"}
      [] OTHER -> {}

\* The sub-protocols whose result ipa unwraps: .await.unwrap()
Unwrapped ==
    {"convert_all_bits", "generate_permutation_and_reveal_shuffled",
     "apply_sort_permutation"}

\* A plausible slip: the error is swallowed and the rows computed so far,
\* none, are returned.
SubProtocolFailedSwallowed(p) == [pc |-> "done", result |-> <<>>]

\* What ipa does when the sub-protocol p returns an error: unwrap panics,
\* `?` and the final .await return the error.
SubProtocolFailed(p) ==
    IF p \in Unwrapped
    THEN [pc |-> "panicked", result |-> "panic"]
    ELSE [pc |-> "failed", result |-> [tag |-> "Err", value |-> p]]

\* A sub-protocol of ipa returns an error.
IpaSubProtocolFails ==
    /\ \E p \in SubProtocolsAt(ipa_pc) :
          /\ ipa_pc' = SubProtocolFailed(p).pc
          /\ ipa_result' = Some(SubProtocolFailed(p).result)
    /\ UNCHANGED <<input_rows, per_user_credit_cap, max_breakdown_key,
                   ipa_permutation, ipa_sorted, helper_bits, credits, ss_bits>>
    /\ UNCHANGED notIpaVars

\* The caps the drawn runs of ipa are made with; PER_USER_CAP of the test is 3.
IpaCaps == {1, 3}

\* The numbers of breakdown keys the drawn runs are made with;
\* MAX_BREAKDOWN_KEY of the test is 3.
MaxBreakdownKeys == {2, 3}

\* The helpers are about to run ipa on the records of tests::semi_honest
\* with MAX_BREAKDOWN_KEY = 3, on no record, or on a drawn input.
IpaInit ==
    /\ SendIdle
    /\ ReshareIdle
    /\ MaliciousIdle
    /\ SortIdle
    /\ StreamIdle
    /\ WipIdle
    /\ VecIdle
    /\ RowIdle
    /\ \/ /\ input_rows = IpaScenario
          /\ per_user_credit_cap = 3
          /\ max_breakdown_key = 3
       \/ /\ input_rows = <<>>
          /\ per_user_credit_cap = 8
          /\ max_breakdown_key = 3
       \/ /\ input_rows \in DrawnInputs
          /\ per_user_credit_cap \in IpaCaps
          /\ max_breakdown_key \in MaxBreakdownKeys
    /\ ipa_pc = "start"
    /\ ipa_permutation = None
    /\ ipa_sorted = <<>>
    /\ helper_bits = <<>>
    /\ credits = <<>>
    /\ ss_bits = 0
    /\ ipa_result = None

IpaNext ==
    \/ GenSortPermutation
    \/ IpaApplySort
    \/ ComputeHelperBitsOverflow
    \/ ComputeHelperBits
    \/ IpaAccumulateCredit
    \/ IpaCreditCapping
    \/ IpaAggregateCredit
    \/ IpaSubProtocolFails

IpaSpec == IpaInit /\ [][IpaNext]_vars

(***************************************************************************)
(*                    Properties of the attribution                        *)
(***************************************************************************)

InputIndices == 1..Len(input_rows)
IsSource(i) == input_rows[i].is_trigger_bit = 0
SameUser(i, j) == input_rows[i].match_key = input_rows[j].match_key

\* The trigger reports attributed to source report i: those of the same
\* user after it with no source report of that user in between.
TouchedBy(i) ==
    {j \in InputIndices :
        /\ j > i /\ ~IsSource(j) /\ SameUser(i, j)
        /\ \A k \in InputIndices : (i < k /\ k < j /\ SameUser(i, k)) => ~IsSource(k)}

LastTouchCredit ==
    [i \in InputIndices |->
        IF IsSource(i)
        THEN SetSum(TouchedBy(i), [j \in InputIndices |-> input_rows[j].trigger_value])
        ELSE 0]

\* What the user of source report i has been credited before it.
CreditedBefore(i) ==
    SetSum({k \in InputIndices : k < i /\ SameUser(i, k)}, LastTouchCredit)

\* The capped last-touch credit of row i under the cap.
CappedCredit(cap) ==
    [i \in InputIndices |-> Min(LastTouchCredit[i], Max0(cap - CreditedBefore(i)))]

\* The total of breakdown key b over all users.
ExpectedTotal(b, cap) ==
    SetSum({i \in InputIndices : IsSource(i) /\ input_rows[i].breakdown_key = b},
           CappedCredit(cap))

\* EXPECTED of tests::semi_honest
IpaExpected ==
    << [breakdown_key |-> 0, credit |-> 0],
       [breakdown_key |-> 1, credit |-> 2],
       [breakdown_key |-> 2, credit |-> 3] >>

\* C17: ipa returns exactly max_breakdown_key rows, row b carrying breakdown
\* key b and the sum over users of the capped last-touch credit attributed
\* to b; on the five records of the test with cap 3 and max_breakdown_key 3
\* the rows are [[0,0],[1,2],[2,3]].
C17_IpaReturnsCappedCreditPerBreakdownKey ==
    ipa_pc = "done" =>
        LET out == Head(ipa_result)
        IN  /\ Len(out) = max_breakdown_key
            /\ \A b \in 0..(max_breakdown_key - 1) :
                  /\ out[b + 1].breakdown_key = b
                  /\ out[b + 1].credit = ExpectedTotal(b, per_user_credit_cap)
            /\ input_rows = IpaScenario => out = IpaExpected

\* The run of the test has ended with the expected rows.
C17_Witness ==
    /\ ipa_pc = "done"
    /\ input_rows = IpaScenario
    /\ per_user_credit_cap = 3
    /\ Head(ipa_result) = IpaExpected

(***************************************************************************)
(*                     OprfIpaQuery::execute                               *)
(***************************************************************************)

\* The caps a query is configured with: the legal ones and some others.
LegalCaps == {1, 2, 4, 8, 16, 32, 64, 128}
CapChoices == LegalCaps \cup {0, 3, 129}

\* match config.per_user_credit_cap { 1 => .., 2 | 4 => .., 8 => .., .. }:
\* the SS_BITS parameter of the oprf_ipa instantiation that is called.
SaturatingSumBitsEightAsFour(cap) ==
    CASE cap = 1 -> 1
      [] cap \in {2, 4, 8} -> 2
      [] cap = 16 -> 4
      [] cap = 32 -> 5
      [] cap = 64 -> 6
      [] OTHER -> 7
SaturatingSumBits(cap) ==
    CASE cap = 1 -> 1
      [] cap \in {2, 4} -> 2
      [] cap = 8 -> 3
      [] cap = 16 -> 4
      [] cap = 32 -> 5
      [] cap = 64 -> 6
      [] OTHER -> 7

\* The arms of the match that call oprf_ipa; the last arm panics.
HasArm(cap) == cap \in {1, 2, 4, 8, 16, 32, 64, 128}

\* The records of tests::encrypted_reports.
OprfScenario ==
    << Source(12345, 2, 0), Source(68362, 1, 4), Trigger(12345, 5, 10),
       Trigger(68362, 2, 12), Source(68362, 1, 20),
       [Trigger(68362, 7, 30) EXCEPT !.breakdown_key = 1] >>

\* The sort of oprf_ipa: by user (the PRF tag of the match key), then by
\* timestamp; entry i is the destination of row i.
OprfPermutation(rows) ==
    [i \in 1..Len(rows) |->
        Cardinality({j \in 1..Len(rows) :
            \/ rows[j].match_key < rows[i].match_key
            \/ /\ rows[j].match_key = rows[i].match_key
               /\ \/ rows[j].timestamp < rows[i].timestamp
                  \/ rows[j].timestamp = rows[i].timestamp /\ j < i})]

\* The cap an instantiation with SS_BITS saturating-sum bits enforces.
CapOfBits(bits) == Pow2(bits)

\* The per-bucket totals of the capped credits.
Histogram(rows, cr, max_bk) ==
    [k \in 1..max_bk |-> AggregateCredit(rows, cr, max_bk)[k].credit]

\* An encrypted report of the input stream: the row it decrypts to, and
\* whether enc_report.decrypt(key_registry) returns Ok.
Encrypted(rows, bad) ==
    [i \in 1..Len(rows) |-> [row |-> rows[i], decrypts |-> i \notin bad]]

\* .take(sz) on the stream of decryption results / v.truncate(sz)
Taken == SubSeq(reports, 1, Min(query_size, Len(reports)))

\* Whether try_collect meets an Err among the items taken.
DecryptFails ==
    /\ ~plaintext_match_keys
    /\ \E i \in 1..Len(Taken) : ~Taken[i].decrypts

\* execute, the input: the first query_size rows of the stream.
ExecuteRead ==
    /\ ipa_pc = "read"
    /\ ~DecryptFails
    /\ input_rows' = [i \in 1..Len(Taken) |-> Taken[i].row]
    /\ ipa_pc' = "execute"
    /\ UNCHANGED <<per_user_credit_cap, max_breakdown_key, ipa_permutation,
                   ipa_sorted, helper_bits, credits, ss_bits, ipa_result>>
    /\ UNCHANGED notIpaVars

\* .try_collect::<Vec<_>>().await? on a report whose decryption failed
ExecuteReadFails ==
    /\ ipa_pc = "read"
    /\ DecryptFails
    /\ ipa_result' = Some([tag |-> "Err", value |-> "Decrypt"])
    /\ ipa_pc' = "failed"
    /\ UNCHANGED <<input_rows, per_user_credit_cap, max_breakdown_key,
                   ipa_permutation, ipa_sorted, helper_bits, credits, ss_bits>>
    /\ UNCHANGED notIpaVars

\* execute, the match: the arm for the configured cap is selected.
ExecuteSelect ==
    /\ ipa_pc = "execute"
    /\ HasArm(per_user_credit_cap)
    /\ ss_bits' = SaturatingSumBits(per_user_credit_cap)
    /\ ipa_pc' = "oprf_ipa"
    /\ UNCHANGED <<input_rows, per_user_credit_cap, max_breakdown_key,
                   ipa_permutation, ipa_sorted, helper_bits, credits, ipa_result>>
    /\ UNCHANGED notIpaVars

\* _ => panic!("Invalid value specified for per-user cap: ..")
ExecutePanic ==
    /\ ipa_pc = "execute"
    /\ ~HasArm(per_user_credit_cap)
    /\ ipa_result' = Some([tag |-> "panic", value |-> <<>>])
    /\ ipa_pc' = "panicked"
    /\ UNCHANGED <<input_rows, per_user_credit_cap, max_breakdown_key,
                   ipa_permutation, ipa_sorted, helper_bits, credits, ss_bits>>
    /\ UNCHANGED notIpaVars

\* oprf_ipa::<_, BA8, BA3, HV, BA20, SS_BITS, 256>(ctx, input, ..).await
OprfIpa ==
    /\ ipa_pc = "oprf_ipa"
    /\ LET sorted == ApplyInv(OprfPermutation(input_rows), input_rows)
           hb == HelperBits(sorted)
           capped == CreditCapping(AccumulateCredit(sorted, hb), hb,
                                   CapOfBits(ss_bits))
       IN  /\ ipa_sorted' = sorted
           /\ helper_bits' = hb
           /\ credits' = capped
           /\ ipa_result' =
                 Some([tag |-> "Ok",
                       value |-> Histogram(sorted, capped, max_breakdown_key)])
    /\ ipa_pc' = "done"
    /\ UNCHANGED <<input_rows, per_user_credit_cap, max_breakdown_key,
                   ipa_permutation, ss_bits>>
    /\ UNCHANGED notIpaVars

\* A query with the records of tests::encrypted_reports, no record or a
\* drawn input, max_breakdown_key 3 and no DP: every cap on encrypted
\* reports that decrypt, cap 8 on encrypted reports one of which does not
\* decrypt, cap 8 on plaintext match keys.
OprfInit ==
    /\ SendIdle
    /\ ReshareIdle
    /\ MaliciousIdle
    /\ SortIdle
    /\ WipIdle
    /\ VecIdle
    /\ RowIdle
    /\ \E rows \in {OprfScenario, <<>>} \cup DrawnInputs :
          \/ /\ plaintext_match_keys = FALSE
             /\ reports = Encrypted(rows, {})
             /\ query_size = IF rows = <<>> THEN 1 ELSE Len(rows)
             /\ per_user_credit_cap \in CapChoices
          \/ /\ plaintext_match_keys = FALSE
             /\ \E bad \in 1..Len(rows) : reports = Encrypted(rows, {bad})
             /\ query_size \in 1..(Len(rows) + 1)
             /\ per_user_credit_cap = 8
          \/ /\ plaintext_match_keys = TRUE
             /\ reports = Encrypted(rows, {})
             /\ query_size \in 1..(Len(rows) + 1)
             /\ per_user_credit_cap = 8
    /\ input_rows = <<>>
    /\ max_breakdown_key = 3
    /\ ipa_pc = "read"
    /\ ipa_permutation = None
    /\ ipa_sorted = <<>>
    /\ helper_bits = <<>>
    /\ credits = <<>>
    /\ ss_bits = 0
    /\ ipa_result = None

OprfNext ==
    \/ ExecuteRead
    \/ ExecuteReadFails
    \/ ExecuteSelect
    \/ ExecutePanic
    \/ OprfIpa

OprfSpec == OprfInit /\ [][OprfNext]_vars

\* ipa has ended: it returned or panicked.
IpaEnded == ipa_pc \in {"done", "failed", "panicked"}

\* Once ipa has failed it returns nothing else.
FailureIsFinal ==
    ipa_pc \in {"failed", "panicked"} => UNCHANGED <<ipa_pc, ipa_result>>

\* C39: ipa gives no partial result: when one of its sub-protocols fails
\* the call fails as a whole and returns no Ok output; when it returns Ok
\* the output has a row for each of the max_breakdown_key breakdown keys.
C39_NoPartialResult ==
    /\ [](/\ ipa_result # None <=> IpaEnded
          /\ ipa_pc = "done" =>
                /\ Len(Head(ipa_result)) = max_breakdown_key
                /\ \A k \in 1..max_breakdown_key :
                       Head(ipa_result)[k].breakdown_key = k - 1
          /\ ipa_pc = "failed" =>
                /\ Head(ipa_result).tag = "Err"
                /\ Head(ipa_result).value \notin Unwrapped
          /\ ipa_pc = "panicked" => Head(ipa_result) = "panic")
    /\ [][FailureIsFinal]_vars

\* C39 witness: credit_capping failed after the credits of a user with a
\* source and a trigger report had been accumulated.
C39_Witness ==
    /\ ipa_pc = "failed"
    /\ Head(ipa_result).value = "credit_capping"
    /\ \E i \in 1..Len(credits) : credits[i] > 0

(***************************************************************************)
(*                  Properties of OprfIpaQuery::execute                    *)
(***************************************************************************)

Executed == ipa_pc \in {"done", "panicked"}

\* The credit of user u in the capped rows of the run.
UserTotal(u) ==
    SetSum({i \in 1..Len(ipa_sorted) : ipa_sorted[i].match_key = u}, credits)

\* C18: execute on the six records of the test with cap 8, max_breakdown_key
\* 3 and no DP yields the per-bucket totals [0, 8, 5]: the credit 2 + 7 = 9
\* of user 68362 is capped to 8.
C18_ScenarioYieldsCappedTotals ==
    (ipa_pc = "done" /\ input_rows = OprfScenario /\ per_user_credit_cap = 8) =>
        /\ Head(ipa_result) = [tag |-> "Ok", value |-> <<0, 8, 5>>]
        /\ SetSum({i \in InputIndices : SameUser(i, 2)}, LastTouchCredit) = 9
        /\ UserTotal(68362) = 8

\* The run of the test has ended.
C18_Witness ==
    /\ ipa_pc = "done"
    /\ input_rows = OprfScenario
    /\ per_user_credit_cap = 8
    /\ ss_bits = 3
    /\ Head(ipa_result).value = <<0, 8, 5>>

\* C19 as stated: for every legal per_user_credit_cap and every input, the
\* credits attributed to any single user in the final output sum to at
\* most per_user_credit_cap.
C19_UserCreditAtMostCap ==
    (ipa_pc = "done" /\ per_user_credit_cap \in LegalCaps) =>
        \A u \in Users : UserTotal(u) <= per_user_credit_cap

\* C20 as stated: a query whose per_user_credit_cap is not one of 1, 2, 4,
\* 8, 16, 32, 64, 128 fails with the error value InvalidConfig, reported as
\* an error outcome of execute.
C20_InvalidCapIsInvalidConfig ==
    (Executed /\ per_user_credit_cap \notin LegalCaps) =>
        Head(ipa_result) = [tag |-> "Err", value |-> "InvalidConfig"]

\* C36 as stated: for every legal per_user_credit_cap c, execute selects a
\* saturating-sum bit width w with 2^w = c, so that two different legal
\* caps never run the same instantiation of oprf_ipa.
C36_BitWidthMatchesCap ==
    (ipa_pc \in {"oprf_ipa", "done"} /\ per_user_credit_cap \in LegalCaps) =>
        /\ Pow2(ss_bits) = per_user_credit_cap
        /\ \A c \in LegalCaps :
               SaturatingSumBits(c) = ss_bits => c = per_user_credit_cap

\* The reports among the first query_size whose decryption fails, and the
\* rows of the others.
Undecryptable == {i \in 1..Len(Taken) : ~Taken[i].decrypts}
Decryptable == SelectSeq(Taken, LAMBDA report : report.decrypts)
RemainingRows == [i \in 1..Len(Decryptable) |-> Decryptable[i].row]

\* C21 as stated: a report whose decryption fails is skipped and does not
\* fail the query: when one report among the first query_size fails to
\* decrypt, execute continues with the remaining reports and still
\* produces a result.
C21_DecryptFailureIsSkipped ==
    (/\ ~plaintext_match_keys
     /\ Cardinality(Undecryptable) = 1
     /\ ipa_pc \notin {"idle", "read"}) =>
        /\ ipa_pc # "failed"
        /\ input_rows = RemainingRows
        /\ ipa_pc = "done" => Head(ipa_result).tag = "Ok"

(***************************************************************************)
(*                 Further properties of the attribution                   *)
(***************************************************************************)

\* C22 as stated: empty input is legal: the attribution pipeline on zero
\* input rows with cap 8 and max_breakdown_key 3 terminates normally with
\* output [0,0,0], one zero total per breakdown key, without error or abort.
C22_EmptyInputYieldsZeros ==
    (/\ ipa_pc \in {"panicked", "done"}
     /\ input_rows = <<>>
     /\ per_user_credit_cap = 8
     /\ max_breakdown_key = 3) =>
        /\ ipa_pc = "done"
        /\ [k \in 1..3 |-> Head(ipa_result)[k].credit] = <<0, 0, 0>>

\* The sorted rows, and what the claims say about them.
SortedIndices == 1..Len(ipa_sorted)
SortedIsSource(i) == ipa_sorted[i].is_trigger_bit = 0
SortedSameUser(i, j) == ipa_sorted[i].match_key = ipa_sorted[j].match_key

\* The contiguous run of trigger events of the user of row i right after it.
TriggerRunAfter(i) ==
    {j \in SortedIndices :
        /\ j > i
        /\ \A k \in (i + 1)..j : ~SortedIsSource(k) /\ SortedSameUser(i, k)}

\* The summed trigger value of that run.
RunCredit ==
    [i \in SortedIndices |->
        SetSum(TriggerRunAfter(i),
               [j \in SortedIndices |-> ipa_sorted[j].trigger_value])]

\* What the source events of the user of row i before it were credited.
CreditedEarlier(i) ==
    SetSum({j \in SortedIndices : j < i /\ SortedIsSource(j) /\ SortedSameUser(i, j)},
           RunCredit)

\* The run's credit of source event i, capped.
CappedRunCredit(i) ==
    Min(RunCredit[i], Max0(per_user_credit_cap - CreditedEarlier(i)))

\* The users none of whose trigger events has a source event before it.
WithoutSource ==
    {u \in Users :
        \A j \in SortedIndices :
            (ipa_sorted[j].match_key = u /\ ~SortedIsSource(j)) =>
                \A i \in 1..(j - 1) : SortedSameUser(i, j) => ~SortedIsSource(i)}

Capped == ipa_pc \in {"aggregate", "done"}

\* C23: last-touch semantics: in the attribution output non-zero credit
\* appears only at a source event that immediately precedes a contiguous
\* run of trigger events of its user, and the credit of every source event
\* is the summed, then capped, trigger value of its run; the rows of a user
\* whose trigger events have no source event before them carry credit 0,
\* so that user contributes 0 to every bucket.
C23_LastTouchSemantics ==
    Capped =>
        /\ Len(credits) = Len(ipa_sorted)
        /\ \A i \in SortedIndices :
              /\ credits[i] # 0 => SortedIsSource(i) /\ TriggerRunAfter(i) # {}
              /\ SortedIsSource(i) => credits[i] = CappedRunCredit(i)
              /\ ~SortedIsSource(i) => credits[i] = 0
        /\ \A u \in WithoutSource : UserTotal(u) = 0
        /\ ipa_pc = "done" =>
              \A k \in 1..Len(Head(ipa_result)) :
                  Head(ipa_result)[k].credit =
                      SetSum({i \in SortedIndices :
                                 /\ ipa_sorted[i].breakdown_key = k - 1
                                 /\ ipa_sorted[i].match_key \notin WithoutSource},
                             credits)

\* A run ended in which a user has two trigger events and no source event,
\* and the other user a source event credited with its capped run of two.
C23_Witness ==
    /\ ipa_pc = "done"
    /\ Len(ipa_sorted) = 3
    /\ per_user_credit_cap = 3
    /\ WithoutSource # {}
    /\ \E i \in SortedIndices :
          /\ ~SortedIsSource(i)
          /\ ipa_sorted[i].match_key \in WithoutSource
    /\ \E i \in SortedIndices :
          /\ SortedIsSource(i)
          /\ RunCredit[i] > per_user_credit_cap
          /\ credits[i] = per_user_credit_cap

\* The sum of the outputs over the breakdown keys below max_breakdown_key.
BucketMass ==
    SetSum(1..Len(Head(ipa_result)),
           [k \in 1..Len(Head(ipa_result)) |-> Head(ipa_result)[k].credit])

\* The sum of the capped credits of the rows in S.
CreditMass(S) == SetSum(S, credits)

\* The rows whose breakdown key is below max_breakdown_key.
InRange == {i \in SortedIndices : ipa_sorted[i].breakdown_key < max_breakdown_key}

\* C24 as stated: without DP noise the sum of the per-bucket outputs over
\* the breakdown keys in [0, max_breakdown_key) equals the sum over all
\* users of their capped credits.
C24_MassIsAllCappedCredit ==
    ipa_pc = "done" => BucketMass = CreditMass(SortedIndices)

\* C24, amended: without DP noise the sum of the per-bucket outputs equals
\* the sum of the capped credits of the source events whose breakdown key
\* is below max_breakdown_key; it is the sum of all capped credits when no
\* credited source event has a breakdown key of max_breakdown_key or more.
C24_MassIsCappedCreditInRange ==
    ipa_pc = "done" =>
        /\ Len(Head(ipa_result)) = max_breakdown_key
        /\ BucketMass = CreditMass(InRange)
        /\ (\A i \in SortedIndices \ InRange : credits[i] = 0)
              <=> BucketMass = CreditMass(SortedIndices)

\* A run ended in which a credited source event has breakdown key
\* max_breakdown_key, so that the outputs sum to less than the credits.
C24_Witness ==
    /\ ipa_pc = "done"
    /\ max_breakdown_key = 2
    /\ \E i \in SortedIndices \ InRange : credits[i] > 0
    /\ InRange # {}
    /\ BucketMass < CreditMass(SortedIndices)

HelperBitsComputed == ipa_pc \in {"accumulate", "capping", "aggregate", "done"}

\* C25 as stated: h_0 is 0, and for every i the helper bit h_i is 1 iff
\* sorted records i and i+1 belong to the same user.
C25_HelperBitComparesNextRow ==
    (HelperBitsComputed /\ ipa_sorted # <<>>) =>
        /\ helper_bits[1] = 0
        /\ \A i \in 1..(Len(ipa_sorted) - 1) :
              helper_bits[i] = 1 <=> SortedSameUser(i, i + 1)

\* C25, amended: there is one helper bit per sorted row; the bit of the
\* first row is 0 and the bit of every other row is 1 iff the row and the
\* row before it belong to the same user, which on the sorted rows is the
\* case iff the row is not the first row of its user.
C25_HelperBitComparesPreviousRow ==
    (HelperBitsComputed /\ ipa_sorted # <<>>) =>
        /\ Len(helper_bits) = Len(ipa_sorted)
        /\ helper_bits[1] = 0
        /\ \A i \in 2..Len(ipa_sorted) :
              /\ helper_bits[i] \in {0, 1}
              /\ helper_bits[i] = 1 <=> SortedSameUser(i - 1, i)
              /\ helper_bits[i] = 1 <=> \E j \in 1..(i - 1) : SortedSameUser(j, i)

\* The helper bits of three sorted rows, two of one user and then one of
\* the other, are 0, 1, 0.
C25_Witness ==
    /\ HelperBitsComputed
    /\ Len(ipa_sorted) = 3
    /\ SortedSameUser(1, 2)
    /\ ~SortedSameUser(2, 3)
    /\ helper_bits = <<0, 1, 0>>

(***************************************************************************)
(*                          ipa_wip_malicious                              *)
(***************************************************************************)

\* MaliciousValidator::validate on shares of which one may have been
\* spoiled: the check r*u = w fails, or holds all the same.
ValidateOutcomes(spoiled) ==
    IF spoiled THEN {"Ok", "MaliciousSecurityCheckFailed"} ELSE {"Ok"}

\* malicious_validator.validate(..).await?: where the function goes on.
AfterValidateIgnored(result, next) == next
AfterValidate(result, next) == IF result = "Ok" THEN next ELSE "failed"

\* What the function has returned after a validate call.
ReturnedAfterValidate(result, next) ==
    IF AfterValidate(result, next) = "failed"
    THEN Some([tag |-> "Err", value |-> result])
    ELSE None

\* A spoiled share of the capped credits: one is added to the first.
Spoiled(cr) == [i \in 1..Len(cr) |-> IF i = 1 THEN cr[i] + 1 ELSE cr[i]]

\* MaliciousValidator::new(sh_ctx.clone()); the match keys are upgraded and
\* converted in the malicious context, where a helper may spoil a share.
WipConvertMatchKeys ==
    /\ ipa_pc = "start"
    /\ tampered' \in BOOLEAN
    /\ ipa_pc' = "validate_mk"
    /\ UNCHANGED <<validations, sh_steps>>
    /\ UNCHANGED <<input_rows, per_user_credit_cap, max_breakdown_key,
                   ipa_permutation, ipa_sorted, helper_bits, credits, ss_bits,
                   ipa_result>>
    /\ UNCHANGED notWipVars

\* let converted_mk_shares = malicious_validator.validate(..).await?;
WipValidateMatchKeys ==
    /\ ipa_pc = "validate_mk"
    /\ \E result \in ValidateOutcomes(tampered) :
          /\ validations' = Append(validations, result)
          /\ ipa_pc' = AfterValidate(result, "sort")
          /\ ipa_result' = ReturnedAfterValidate(result, "sort")
    /\ UNCHANGED <<tampered, sh_steps>>
    /\ UNCHANGED <<input_rows, per_user_credit_cap, max_breakdown_key,
                   ipa_permutation, ipa_sorted, helper_bits, credits, ss_bits>>
    /\ UNCHANGED notWipVars

\* malicious_generate_permutation_and_reveal_shuffled(sh_ctx.narrow(..), ..),
\* then MaliciousValidator::new(sh_ctx.narrow(&Step::AfterConvertAllBits)).
WipGenSortPermutation ==
    /\ ipa_pc = "sort"
    /\ \E pi \in Perms(Len(input_rows)) :
          ipa_permutation' =
              Some(ShuffleAndReveal(GeneratePermutation(input_rows), pi))
    /\ sh_steps' = Append(sh_steps, "GenSortPermutationFromMatchKeys")
    /\ tampered' = FALSE
    /\ ipa_pc' = "attribution"
    /\ UNCHANGED validations
    /\ UNCHANGED <<input_rows, per_user_credit_cap, max_breakdown_key,
                   ipa_sorted, helper_bits, credits, ss_bits, ipa_result>>
    /\ UNCHANGED notWipVars

\* set_total_records(sorted_rows.len() - 1) on no rows, in a build with
\* overflow checks.
WipAttributionOverflow ==
    /\ ipa_pc = "attribution"
    /\ Len(input_rows) = 0
    /\ ipa_result' = Some([tag |-> "panic", value |-> <<>>])
    /\ ipa_pc' = "panicked"
    /\ UNCHANGED wipVars
    /\ UNCHANGED <<input_rows, per_user_credit_cap, max_breakdown_key,
                   ipa_permutation, ipa_sorted, helper_bits, credits, ss_bits>>
    /\ UNCHANGED notWipVars

\* In the malicious context of the second validator: the breakdown keys are
\* converted, the rows upgraded and sorted, the helper bits computed, the
\* credits accumulated and capped; a helper may spoil a share.
WipAttribution ==
    /\ ipa_pc = "attribution"
    /\ LET sorted == ApplySort(input_rows, Head(ipa_permutation))
           hb == HelperBits(sorted)
           capped == UserCappedCredits(AccumulateCredit(sorted, hb), hb,
                                       per_user_credit_cap)
       IN  /\ ipa_sorted' = sorted
           /\ helper_bits' = hb
           /\ \E t \in BOOLEAN :
                 /\ tampered' = t
                 /\ credits' = IF t THEN Spoiled(capped) ELSE capped
    /\ ipa_pc' = "validate_credits"
    /\ UNCHANGED <<validations, sh_steps>>
    /\ UNCHANGED <<input_rows, per_user_credit_cap, max_breakdown_key,
                   ipa_permutation, ss_bits, ipa_result>>
    /\ UNCHANGED notWipVars

\* let user_capped_credits = malicious_validator.validate(..).await?;
WipValidateCredits ==
    /\ ipa_pc = "validate_credits"
    /\ \E result \in ValidateOutcomes(tampered) :
          /\ validations' = Append(validations, result)
          /\ ipa_pc' = AfterValidate(result, "aggregate")
          /\ ipa_result' = ReturnedAfterValidate(result, "aggregate")
    /\ UNCHANGED <<tampered, sh_steps>>
    /\ UNCHANGED <<input_rows, per_user_credit_cap, max_breakdown_key,
                   ipa_permutation, ipa_sorted, helper_bits, credits, ss_bits>>
    /\ UNCHANGED notWipVars

\* aggregate_credit(sh_ctx.narrow(&Step::AggregateCredit), ..).await
WipAggregateCredit ==
    /\ ipa_pc = "aggregate"
    /\ ipa_result' =
          Some([tag |-> "Ok",
                value |-> Aggregated(ipa_sorted, credits, max_breakdown_key)])
    /\ sh_steps' = Append(sh_steps, "AggregateCredit")
    /\ ipa_pc' = "done"
    /\ UNCHANGED <<tampered, validations>>
    /\ UNCHANGED <<input_rows, per_user_credit_cap, max_breakdown_key,
                   ipa_permutation, ipa_sorted, helper_bits, credits, ss_bits>>
    /\ UNCHANGED notWipVars

\* The helpers are about to run ipa_wip_malicious on the records of
\* tests::semi_honest, on no record or on a drawn input.
WipInit ==
    /\ SendIdle
    /\ ReshareIdle
    /\ MaliciousIdle
    /\ SortIdle
    /\ StreamIdle
    /\ VecIdle
    /\ RowIdle
    /\ input_rows \in {IpaScenario, <<>>} \cup DrawnInputs
    /\ per_user_credit_cap = 3
    /\ max_breakdown_key = 3
    /\ ipa_pc = "start"
    /\ ipa_permutation = None
    /\ ipa_sorted = <<>>
    /\ helper_bits = <<>>
    /\ credits = <<>>
    /\ ss_bits = 0
    /\ ipa_result = None
    /\ tampered = FALSE
    /\ validations = <<>>
    /\ sh_steps = <<>>

WipNext ==
    \/ WipConvertMatchKeys
    \/ WipValidateMatchKeys
    \/ WipGenSortPermutation
    \/ WipAttributionOverflow
    \/ WipAttribution
    \/ WipValidateCredits
    \/ WipAggregateCredit

WipSpec == WipInit /\ [][WipNext]_vars

(***************************************************************************)
(*                   Properties of ipa_wip_malicious                       *)
(***************************************************************************)

SecurityCheckFailed == [tag |-> "Err", value |-> "MaliciousSecurityCheckFailed"]

\* The validate calls that returned Ok, among the first n.
ValidatedOk(n) ==
    /\ Len(validations) >= n
    /\ \A k \in 1..n : validations[k] = "Ok"

\* C26: in ipa_wip_malicious the steps in the semi-honest context run only
\* on validated shares: the sort permutation is generated and revealed only
\* after the first validate returned Ok, aggregate_credit runs only after
\* both returned Ok; when a validate fails the function has returned
\* MaliciousSecurityCheckFailed, no step ran after the failed call and no
\* output is revealed.
C26_SemiHonestStepsAfterValidation ==
    /\ \A k \in 1..Len(sh_steps) :
          /\ sh_steps[k] = "GenSortPermutationFromMatchKeys" => ValidatedOk(1)
          /\ sh_steps[k] = "AggregateCredit" => ValidatedOk(2)
    /\ ipa_permutation # None => ValidatedOk(1)
    /\ (ipa_result # None /\ Head(ipa_result).tag = "Ok") => ValidatedOk(2)
    /\ \A k \in 1..Len(validations) :
          validations[k] # "Ok" =>
              /\ k = Len(validations)
              /\ ipa_pc = "failed"
              /\ ipa_result = Some(SecurityCheckFailed)
              /\ Len(sh_steps) = k - 1
              /\ k = 1 => ipa_permutation = None /\ ipa_sorted = <<>>

\* The second validation failed on spoiled credits, after the sort
\* permutation was revealed; aggregate_credit has not run.
C26_Witness ==
    /\ ipa_pc = "failed"
    /\ input_rows = IpaScenario
    /\ tampered
    /\ validations = <<"Ok", "MaliciousSecurityCheckFailed">>
    /\ sh_steps = <<"GenSortPermutationFromMatchKeys">>
    /\ ipa_result = Some(SecurityCheckFailed)

(***************************************************************************)
(*                    Further properties of reshare                        *)
(***************************************************************************)

LeftPeer == Peer(to_helper, Left)
RightPeer == Peer(to_helper, Right)

\* The channels of the two messages of a record.
PartChannels == {<<LeftPeer, RightPeer>>, <<RightPeer, LeftPeer>>}

\* What is in flight is part1 from the left peer to the right peer and
\* part2 from the right peer to the left peer, once each.
TwoMessages ==
    /\ msgs <= 2
    /\ msgs = Cardinality({h \in Roles : part[h] # None})
    /\ \A ch \in Roles \X Roles :
          /\ Len(net[ch]) <= 1
          /\ net[ch] # <<>> =>
                /\ ch \in PartChannels
                /\ net[ch] = part[ch[1]]
    /\ part[LeftPeer] # None =>
          part[LeftPeer] = Some(Part1(input[LeftPeer], prss[LeftPeer]))
    /\ part[RightPeer] # None =>
          part[RightPeer] = Some(Part2(input[RightPeer], prss[RightPeer]))

\* A peer has sent its part before it receives the other one.
SendsBeforeReceives ==
    \A h \in Roles :
        /\ rcvd[h] # None => part[h] # None /\ h \in {LeftPeer, RightPeer}
        /\ pc[h] = "receive" => part[h] # None

\* The three helpers have returned and nothing is in flight.
Terminated ==
    /\ AllDone
    /\ msgs = 2
    /\ \A ch \in Roles \X Roles : net[ch] = <<>>
    /\ rcvd[LeftPeer] = part[RightPeer]
    /\ rcvd[RightPeer] = part[LeftPeer]

\* C27: semi-honest reshare terminates without deadlock: per record exactly
\* two messages are exchanged, part1 from the left peer of to_helper to its
\* right peer and part2 the other way, each of the two peers sends before
\* it receives, and under fair scheduling and delivery the three helpers
\* eventually return, in every interleaving.
C27_ReshareTerminates ==
    /\ [](TwoMessages /\ SendsBeforeReceives)
    /\ <>[]Terminated

\* The right peer of H1 returned first and its left peer has not received.
C27_Witness ==
    /\ to_helper = "H1"
    /\ pc["H2"] = "done"
    /\ pc["H3"] = "receive"
    /\ pc["H1"] = "start"
    /\ net[<<"H2", "H3">>] # <<>>
    /\ msgs = 2

\* C28: the output of semi-honest reshare is a rotationally consistent
\* replicated sharing for every to_helper: with PRSS values that agree
\* between neighbours the right component of each helper is the left
\* component of its right peer; to_helper holds (r0, r1), its left peer
\* (part1 + part2, the value shared with to_helper), its right peer (the
\* value shared with to_helper, part1 + part2).
C28_OutputRotationallyConsistent ==
    AllDone =>
        LET sum == FAdd(part[LeftPeer][1], part[RightPeer][1])
        IN  /\ \A h \in Roles :
                  OutputShares[h].right = OutputShares[Peer(h, Right)].left
            /\ OutputShares[to_helper] = Replicated(prss[to_helper][1], prss[to_helper][2])
            /\ OutputShares[LeftPeer] = Replicated(sum, prss[to_helper][1])
            /\ OutputShares[RightPeer] = Replicated(prss[to_helper][2], sum)

\* A reshare to H1 has ended with three different PRSS values.
C28_Witness ==
    /\ AllDone
    /\ to_helper = "H1"
    /\ Cardinality({prss[h][1] : h \in Roles}) = 3
    /\ OutputShares["H3"].right = OutputShares["H1"].left
    /\ OutputShares["H3"].left # OutputShares["H3"].right

(***************************************************************************)
(*               Further properties of malicious reshare                   *)
(***************************************************************************)

\* The reshare of x runs on the step of ctx, and on the channel of every
\* lane there is at most one message of the record: the part of that lane.
LanesOnOwnChannels ==
    /\ LaneStep("x") = "ctx"
    /\ RandomConstantStep \notin Steps
    /\ \A lane \in Lanes, ch \in Roles \X Roles :
          /\ Len(m_net[LaneStep(lane)][ch]) <= 1
          /\ m_net[LaneStep(lane)][ch] # <<>> =>
                m_net[LaneStep(lane)][ch] = m_part[lane][ch[1]]

\* The two reshares of a helper run concurrently: a helper that waits for,
\* or has, the part of the other peer in one lane has sent its part in both.
LanesConcurrent ==
    \A h \in Roles, lane \in Lanes :
        (m_pc[h] = "receive" \/ (h # to_helper /\ m_lane[lane][h] # None)) =>
            \A other \in Lanes : m_part[other][h] # None

\* A helper has accumulated the MAC iff both of its reshares returned Ok
\* and it returned the pair recombined from them; a helper one of whose
\* reshares failed returned the error and accumulated nothing.
AccumulatedAfterBoth ==
    \A h \in Roles :
        /\ h \in absorbed <=> m_pc[h] = "done"
        /\ h \in absorbed =>
              /\ \A lane \in Lanes : m_lane[lane][h] # None
              /\ m_output[h] = Some(MaliciousReplicated(Head(m_lane["x"][h]),
                                                        Head(m_lane["rx"][h])))
        /\ m_pc[h] = "failed" =>
              /\ h \notin absorbed
              /\ m_output[h] # None
              /\ Head(m_output[h]) \in {[err |-> lane] : lane \in Lanes}
              /\ m_lane[Head(m_output[h]).err][h] = None

\* A helper accumulates in the step in which it returns, and once: having
\* accumulated, it takes no further step.
AccumulatesOnce ==
    \A h \in Roles :
        /\ (h \in absorbed /\ h \notin absorbed') =>  FALSE
        /\ (h \notin absorbed /\ h \in absorbed') =>
              m_pc[h] # "done" /\ m_pc'[h] = "done"
        /\ h \in absorbed =>
              /\ m_pc'[h] = m_pc[h]
              /\ m_output'[h] = m_output[h]
              /\ \A lane \in Lanes : m_lane'[lane][h] = m_lane[lane][h]

\* C29: malicious reshare runs the reshare of x on the context's own step
\* and the reshare of r*x on the step narrowed by ReshareRx, concurrently
\* and with the same record id, so the two never use the same channel and
\* record id; it accumulates the MAC of the recombined pair exactly once,
\* under the RandomnessForValidation step, and only after both reshares
\* returned Ok; if either reshare fails it returns that error and
\* accumulates nothing.
C29_MaliciousReshareLanes ==
    /\ [](LanesOnOwnChannels /\ LanesConcurrent /\ AccumulatedAfterBoth)
    /\ [][AccumulatesOnce]_vars

\* The left peer of H1 has accumulated and returned; the receive of r*x of
\* its right peer failed after its reshare of x returned.
C29_Witness ==
    /\ to_helper = "H1"
    /\ "H3" \in absorbed
    /\ m_pc["H2"] = "failed"
    /\ m_output["H2"] = Some([err |-> "rx"])
    /\ m_lane["x"]["H2"] # None
    /\ "H2" \notin absorbed

(***************************************************************************)
(*                     Part VI: reshare of a slice                         *)
(***************************************************************************)

\* Bound of the model: elements of the slice.
MaxVecLen == 65

\* "If the vector has more than 64 elements": the number of elements the
\* variant for bit-decomposed values is documented to take.
InnerVectorElements == 64

\* ctx.narrow(&InnerVectorElementStep::from(i)) for every element of a
\* slice of at most InnerVectorElements elements: try_join_all collects the
\* futures.
VecNarrow ==
    /\ vec_pc = "start"
    /\ vec_len <= InnerVectorElements
    /\ vec_pc' = "join"
    /\ UNCHANGED <<vec_len, vec_done, vec_result>>
    /\ UNCHANGED vecElemVars
    /\ UNCHANGED notVecVars

\* The same on a longer slice.  From::from and narrow return no Result:
\* the step of an element beyond the last either panics or is a step as
\* the others.
VecNarrowBeyond ==
    /\ vec_pc = "start"
    /\ vec_len > InnerVectorElements
    /\ \/ /\ vec_pc' = "panicked"
          /\ vec_result' = Some([tag |-> "panic", value |-> 0])
       \/ /\ vec_pc' = "join"
          /\ UNCHANGED vec_result
    /\ UNCHANGED <<vec_len, vec_done>>
    /\ UNCHANGED vecElemVars
    /\ UNCHANGED notVecVars

\* x.reshare(c, record_id, to_helper).await of one more element returns Ok.
VecElementOk ==
    /\ vec_pc = "join"
    /\ vec_done < vec_len
    /\ vec_done' = vec_done + 1
    /\ UNCHANGED <<vec_len, vec_pc, vec_result>>
    /\ UNCHANGED vecElemVars
    /\ UNCHANGED notVecVars

\* The reshare of an element returns an error: try_join_all returns it.
VecElementFails ==
    /\ vec_pc = "join"
    /\ vec_done < vec_len
    /\ vec_result' = Some([tag |-> "Err", value |-> vec_done])
    /\ vec_pc' = "returned"
    /\ UNCHANGED <<vec_len, vec_done>>
    /\ UNCHANGED vecElemVars
    /\ UNCHANGED notVecVars

\* Every element returned Ok: try_join_all returns the vector.
VecReturn ==
    /\ vec_pc = "join"
    /\ vec_done = vec_len
    /\ vec_result' = Some([tag |-> "Ok", value |-> vec_len])
    /\ vec_pc' = "returned"
    /\ UNCHANGED <<vec_len, vec_done>>
    /\ UNCHANGED vecElemVars
    /\ UNCHANGED notVecVars

\* A helper is about to call reshare_borrowed(ctx, record_id, to_helper)
\* on a slice.
VecInit ==
    /\ SendIdle
    /\ ReshareIdle
    /\ MaliciousIdle
    /\ SortIdle
    /\ IpaIdle
    /\ StreamIdle
    /\ WipIdle
    /\ RowIdle
    /\ vec_len \in 0..MaxVecLen
    /\ vec_pc = "start"
    /\ vec_done = 0
    /\ vec_result = None
    /\ vec_binding = Some(0)
    /\ vec_input = [i \in 1..vec_len |-> 0]
    /\ vec_keys = <<>>
    /\ vec_out = <<>>

VecNext ==
    \/ VecNarrow
    \/ VecNarrowBeyond
    \/ VecElementOk
    \/ VecElementFails
    \/ VecReturn

VecSpec == VecInit /\ [][VecNext]_vars

\* C30 as stated: resharing a slice with a RecordId binding returns an
\* error value when the slice has more than 64 elements.
C30_LongSliceIsAnError ==
    (vec_len > InnerVectorElements /\ vec_pc \in {"returned", "panicked"}) =>
        Head(vec_result).tag = "Err"

\* ---- the element reshares of both variants ------------------------------

\* Bound of the model: elements of a slice whose element reshares are
\* followed one by one.
MaxVecElems == 3

\* Values of an element.
ElemValues == {0, 1}

\* The record ids a caller binds.
BoundRecordIds == {0, 1}

SeqsUpTo(S, n) == UNION {[1..k -> S] : k \in 0..n}

\* InnerVectorElementStep::from(i): the step of element i.
InnerVectorElementStep(i) == <<"InnerVectorElementStep", i>>

\* A plausible slip: every element reshare under the caller's context and
\* the caller's record id.
ElementKeyShared(binding, i, len) ==
    [step |-> <<"ctx">>,
     total_records |-> None,
     record_id |-> IF binding = None THEN 0 ELSE Head(binding)]

\* The context and record id of the reshare of element i (from 0) of a
\* slice of len elements: ctx.narrow(&InnerVectorElementStep::from(i)) with
\* record_id, or ctx.set_total_records(self.len()) with RecordId::from(i).
ElementKey(binding, i, len) ==
    IF binding # None
    THEN [step |-> <<"ctx", InnerVectorElementStep(i)>>,
          total_records |-> None,
          record_id |-> Head(binding)]
    ELSE [step |-> <<"ctx">>,
          total_records |-> Some(len),
          record_id |-> i]

\* x.reshare(c, record_id, to_helper): a fresh sharing of x drawn from the
\* randomness of (step, record id).
ReshareOf(x, key) == [of |-> x, step |-> key.step, record_id |-> key.record_id]

\* The futures of all elements are built: the iterator is collected by
\* try_join_all or by seq_try_join_all.
VecElemNarrow ==
    /\ vec_pc = "start"
    /\ vec_keys = <<>>
    /\ vec_keys' = [i \in 1..Len(vec_input) |->
                        ElementKey(vec_binding, i - 1, Len(vec_input))]
    /\ vec_out' = [i \in 1..Len(vec_input) |-> None]
    /\ vec_pc' = "joining"
    /\ UNCHANGED <<vec_len, vec_done, vec_result, vec_binding, vec_input>>
    /\ UNCHANGED notVecVars

\* The reshare of element i returns Ok.
VecElemOk(i) ==
    /\ vec_pc = "joining"
    /\ vec_out[i] = None
    /\ vec_out' = [vec_out EXCEPT ![i] = Some(ReshareOf(vec_input[i], vec_keys[i]))]
    /\ vec_done' = vec_done + 1
    /\ UNCHANGED <<vec_len, vec_pc, vec_result, vec_binding, vec_input, vec_keys>>
    /\ UNCHANGED notVecVars

\* The reshare of element i returns an error: the join returns it.
VecElemFails(i) ==
    /\ vec_pc = "joining"
    /\ vec_out[i] = None
    /\ vec_result' = Some([tag |-> "Err", value |-> i - 1])
    /\ vec_pc' = "returned"
    /\ UNCHANGED <<vec_len, vec_done, vec_binding, vec_input, vec_keys, vec_out>>
    /\ UNCHANGED notVecVars

\* Every element returned Ok: the join returns the results in the order of
\* the futures.
VecElemReturn ==
    /\ vec_pc = "joining"
    /\ \A i \in DOMAIN vec_out : vec_out[i] # None
    /\ vec_result' = Some([tag |-> "Ok",
                           value |-> [i \in DOMAIN vec_out |-> Head(vec_out[i])]])
    /\ vec_pc' = "returned"
    /\ UNCHANGED <<vec_len, vec_done, vec_binding, vec_input, vec_keys, vec_out>>
    /\ UNCHANGED notVecVars

\* A helper is about to call reshare(ctx, record_binding, to_helper) on a
\* Vec, which hands its slice to reshare_borrowed.
VecElemInit ==
    /\ SendIdle
    /\ ReshareIdle
    /\ MaliciousIdle
    /\ SortIdle
    /\ IpaIdle
    /\ StreamIdle
    /\ WipIdle
    /\ RowIdle
    /\ vec_binding \in {None} \cup {Some(r) : r \in BoundRecordIds}
    /\ vec_input \in SeqsUpTo(ElemValues, MaxVecElems)
    /\ vec_len = Len(vec_input)
    /\ vec_pc = "start"
    /\ vec_done = 0
    /\ vec_result = None
    /\ vec_keys = <<>>
    /\ vec_out = <<>>

VecElemNext ==
    \/ VecElemNarrow
    \/ \E i \in DOMAIN vec_out : VecElemOk(i)
    \/ \E i \in DOMAIN vec_out : VecElemFails(i)
    \/ VecElemReturn

VecElemSpec == VecElemInit /\ [][VecElemNext]_vars

\* No two element reshares of the call use the same (step path, record id).
ElementKeysDistinct ==
    \A i, j \in DOMAIN vec_keys :
        (vec_keys[i].step = vec_keys[j].step
            /\ vec_keys[i].record_id = vec_keys[j].record_id) => i = j

\* With a RecordId binding the element runs under the step narrowed by
\* InnerVectorElementStep(i) with the shared record id; with NoRecord on
\* the one context with record id i and total_records the length.
ElementKeysAsBound ==
    \A i \in DOMAIN vec_keys :
        IF vec_binding # None
        THEN /\ vec_keys[i].step = <<"ctx", InnerVectorElementStep(i - 1)>>
             /\ vec_keys[i].record_id = Head(vec_binding)
        ELSE /\ vec_keys[i].step = <<"ctx">>
             /\ vec_keys[i].record_id = i - 1
             /\ vec_keys[i].total_records = Some(Len(vec_input))

\* The Ok output has the input's length and element i is the reshare of
\* input element i.
OutputIsElementwiseReshare ==
    (vec_pc = "returned" /\ Head(vec_result).tag = "Ok") =>
        /\ Len(Head(vec_result).value) = Len(vec_input)
        /\ \A i \in 1..Len(vec_input) :
               Head(vec_result).value[i] = ReshareOf(vec_input[i], vec_keys[i])

\* C31: in both vector reshare variants no two element reshares of a call
\* use the same (step path, record id); with a RecordId binding element i
\* runs under InnerVectorElementStep(i) with the shared record id, with
\* NoRecord on the one context with record id i and total_records the
\* length; the output has the input's length and element i of it is the
\* reshare of input element i.
C31_ElementResharesOnOwnKeys ==
    /\ Len(vec_keys) \in {0, Len(vec_input)}
    /\ ElementKeysDistinct
    /\ ElementKeysAsBound
    /\ OutputIsElementwiseReshare

\* C31 witness: a call with NoRecord on a slice of at least two elements
\* with different values returned Ok.
C31_Witness ==
    /\ vec_binding = None
    /\ Len(vec_input) >= 2
    /\ vec_input[1] # vec_input[2]
    /\ vec_pc = "returned"
    /\ Head(vec_result).tag = "Ok"

(***************************************************************************)
(*                  Part VII: reshare of an input row                      *)
(***************************************************************************)

\* The fields of IPAModulusConvertedInputRow.
RowFieldNames == {"mk_shares", "is_trigger_bit", "breakdown_key", "trigger_value"}

\* IPAInputRowResharableStep and its as_ref, by the field reshared under it.
IPAInputRowResharableStep(field) ==
    CASE field = "mk_shares" -> "match_key_shares"
      [] field = "is_trigger_bit" -> "is_trigger_bit"
      [] field = "breakdown_key" -> "breakdown_key"
      [] field = "trigger_value" -> "trigger_value"

\* The context and record id of a field's reshare:
\* ctx.narrow(&IPAInputRowResharableStep::...) with record_id.
FieldKey(field, record_id) ==
    [step |-> <<"ctx", IPAInputRowResharableStep(field)>>,
     total_records |-> None,
     record_id |-> record_id]

\* The rows reshared: bit vectors of one bit, a trigger bit and a value.
RowInputs ==
    [mk_shares : {<<0>>, <<1>>},
     is_trigger_bit : {0, 1},
     breakdown_key : {<<0>>, <<1>>},
     trigger_value : {0, 1, 2}]

\* A plausible slip: the two results of try_join_all taken in the other
\* order.
RowOutputSwapped(mk_shares, breakdown_key, outputs) ==
    [mk_shares |-> mk_shares,
     breakdown_key |-> breakdown_key,
     is_trigger_bit |-> Head(Tail(outputs)),
     trigger_value |-> Head(outputs)]

\* The row built from the results: outputs.remove(0) for is_trigger_bit,
\* then outputs.remove(0) of what is left for trigger_value.
RowOutput(mk_shares, breakdown_key, outputs) ==
    [mk_shares |-> mk_shares,
     breakdown_key |-> breakdown_key,
     is_trigger_bit |-> Head(outputs),
     trigger_value |-> Head(Tail(outputs))]

\* The reshare of one field returns Ok.
RowFieldOk(field) ==
    /\ row_pc = "joining"
    /\ row_fields[field] = None
    /\ row_fields' = [row_fields EXCEPT ![field] =
           Some([tag |-> "Ok",
                 value |-> ReshareOf(row_input[field],
                                     FieldKey(field, row_record_id))])]
    /\ UNCHANGED <<row_input, row_record_id, row_pc, row_result>>
    /\ UNCHANGED notRowVars

\* The reshare of one field returns an error: try_join3 (or the
\* try_join_all inside it) returns it and `?` returns it from reshare.
RowFieldFails(field) ==
    /\ row_pc = "joining"
    /\ row_fields[field] = None
    /\ row_fields' = [row_fields EXCEPT ![field] =
           Some([tag |-> "Err", value |-> field])]
    /\ row_result' = Some([tag |-> "Err", value |-> field])
    /\ row_pc' = "returned"
    /\ UNCHANGED <<row_input, row_record_id>>
    /\ UNCHANGED notRowVars

\* All four returned Ok: the row is built and returned.
RowReturn ==
    /\ row_pc = "joining"
    /\ \A f \in RowFieldNames : row_fields[f] # None
    /\ row_result' = Some([tag |-> "Ok", value |->
           RowOutput(Head(row_fields["mk_shares"]).value,
                     Head(row_fields["breakdown_key"]).value,
                     <<Head(row_fields["is_trigger_bit"]).value,
                       Head(row_fields["trigger_value"]).value>>)])
    /\ row_pc' = "returned"
    /\ UNCHANGED <<row_input, row_record_id, row_fields>>
    /\ UNCHANGED notRowVars

\* reshare(ctx, record_id, to_helper) was called on a row: its four field
\* reshares are built and joined.
RowInit ==
    /\ SendIdle
    /\ ReshareIdle
    /\ MaliciousIdle
    /\ SortIdle
    /\ IpaIdle
    /\ StreamIdle
    /\ WipIdle
    /\ VecIdle
    /\ row_input \in RowInputs
    /\ row_record_id \in BoundRecordIds
    /\ row_fields = [f \in RowFieldNames |-> None]
    /\ row_pc = "joining"
    /\ row_result = None

RowNext ==
    \/ \E f \in RowFieldNames : RowFieldOk(f)
    \/ \E f \in RowFieldNames : RowFieldFails(f)
    \/ RowReturn

RowSpec == RowInit /\ [][RowNext]_vars

\* The steps of the field reshares that have returned Ok so far.
StepOfField(f) == Head(row_fields[f]).value.step

FieldsReturnedOk ==
    {f \in RowFieldNames :
        row_fields[f] # None /\ Head(row_fields[f]).tag = "Ok"}

FieldsFailed ==
    {f \in RowFieldNames :
        row_fields[f] # None /\ Head(row_fields[f]).tag = "Err"}

\* C32: the four fields are reshared under four pairwise distinct narrowed
\* steps named match_key_shares, is_trigger_bit, breakdown_key and
\* trigger_value; the row returned has in every field the reshare of the
\* same-named input field; when a field reshare fails the row reshare
\* fails and returns no row.
C32_RowReshareFieldwise ==
    /\ \A f, g \in FieldsReturnedOk : StepOfField(f) = StepOfField(g) => f = g
    /\ \A f \in FieldsReturnedOk :
           StepOfField(f) =
               <<"ctx", IF f = "mk_shares" THEN "match_key_shares" ELSE f>>
    /\ (row_pc = "returned" /\ Head(row_result).tag = "Ok") =>
           \A f \in RowFieldNames :
               Head(row_result).value[f] =
                   ReshareOf(row_input[f], FieldKey(f, row_record_id))
    /\ FieldsFailed # {} =>
           /\ row_pc = "returned"
           /\ Head(row_result).tag = "Err"

\* C32 witness: a row whose trigger bit and trigger value differ was
\* reshared and returned.
C32_Witness ==
    /\ row_pc = "returned"
    /\ Head(row_result).tag = "Ok"
    /\ row_input.is_trigger_bit # row_input.trigger_value
=============================================================================
